---- MODULE Spec2Model ----
(***************************************************************************)
(* A model of the SDTM rule validator's core: the condition language of    *)
(* app/core/rule_parser.py (build_mask and its helpers), the rule engine   *)
(* of app/core/rule_engine.py, and the loading of the rules files by       *)
(* app/core/rule_loader.py and app/core/validation.py.                     *)
(*                                                                         *)
(* Text is modelled as a sequence of one-character strings, so that the    *)
(* regular expressions, strip(), upper(), str() and to_numeric() of the    *)
(* source are computed character by character.  A number is a decimal      *)
(* fraction n/d (d a power of ten), tagged "int" or "float" as Python      *)
(* would type it.  pandas semantics are those of pandas 1.x/2.x: NaN       *)
(* compares false under every operator but !=, and astype(str) renders a   *)
(* null as the text "None" (object column) or "nan" (float64 column).      *)
(***************************************************************************)
EXTENDS Integers, Sequences, FiniteSets, TLC

(***************************************************************************)
(* Characters                                                              *)
(***************************************************************************)

\* The printable ASCII characters, code points 32..126, in code-point order
\* (code point 96, the grave accent, is held by a placeholder: it occurs in no
\* text of the model).
ASCII ==
  <<
      " ", "!", "\"", "#", "$", "%", "&", "'", "(", ")", "*", "+", ",", "-", ".", "/",
      "0", "1", "2", "3", "4", "5", "6", "7", "8", "9", ":", ";", "<", "=", ">", "?",
      "@", "A", "B", "C", "D", "E", "F", "G", "H", "I", "J", "K", "L", "M", "N", "O",
      "P", "Q", "R", "S", "T", "U", "V", "W", "X", "Y", "Z", "[", "\\", "]", "^", "_",
      "<grave>", "a", "b", "c", "d", "e", "f", "g", "h", "i", "j", "k", "l", "m", "n", "o",
      "p", "q", "r", "s", "t", "u", "v", "w", "x", "y", "z", "{", "|", "}", "~"
  >>

\* ord(c), tabulated: the tab and the printable characters
OrdTable ==
  [c \in {"\t"} \cup {ASCII[k] : k \in 1..Len(ASCII)} |->
     IF c = "\t" THEN 9 ELSE 31 + (CHOOSE k \in 1..Len(ASCII) : ASCII[k] = c)]

Ord(c) == OrdTable[c]

Chr(n) == IF n = 9 THEN "\t" ELSE ASCII[n - 31]

IsDigit(c) == Ord(c) >= 48 /\ Ord(c) <= 57

IsUpperLetter(c) == Ord(c) >= 65 /\ Ord(c) <= 90

IsLowerLetter(c) == Ord(c) >= 97 /\ Ord(c) <= 122

\* The class [A-Za-z0-9_] of the column token.
IsWordChar(c) == IsDigit(c) \/ IsUpperLetter(c) \/ IsLowerLetter(c) \/ c = "_"

\* The class \s, and the characters str.strip() removes.
IsSpace(c) == c = " " \/ c = "\t"

\* The class "." (every character but a line break).
IsAnyChar(c) == c # "\n"

UpperChar(c) == IF IsLowerLetter(c) THEN Chr(Ord(c) - 32) ELSE c

LowerChar(c) == IF IsUpperLetter(c) THEN Chr(Ord(c) + 32) ELSE c

(***************************************************************************)
(* Text: str methods                                                       *)
(***************************************************************************)

Min(S) == CHOOSE x \in S : \A y \in S : x <= y

\* text[a-1:b] of Python: the characters at the 1-based positions a..b.
Slice(s, a, b) == SubSeq(s, a, b)

\* str.upper()
Upper(s) == [k \in 1..Len(s) |-> UpperChar(s[k])]

\* str.lstrip()
RECURSIVE LStrip(_)
LStrip(s) == IF s # <<>> /\ IsSpace(s[1]) THEN LStrip(Tail(s)) ELSE s

\* str.rstrip()
RECURSIVE RStrip(_)
RStrip(s) == IF s # <<>> /\ IsSpace(s[Len(s)]) THEN RStrip(Slice(s, 1, Len(s) - 1)) ELSE s

\* str.strip()
Strip(s) == RStrip(LStrip(s))

\* Lexicographic order of two texts by code point: s < t.
RECURSIVE StrLess(_, _)
StrLess(s, t) ==
  IF t = <<>> THEN FALSE
  ELSE IF s = <<>> THEN TRUE
  ELSE IF Ord(s[1]) # Ord(t[1]) THEN Ord(s[1]) < Ord(t[1])
  ELSE StrLess(Tail(s), Tail(t))

\* str.split(sep) for a one-character separator.
RECURSIVE SplitFrom(_, _, _, _)
SplitFrom(s, sep, start, k) ==
  IF k > Len(s) THEN <<Slice(s, start, Len(s))>>
  ELSE IF s[k] = sep THEN <<Slice(s, start, k - 1)>> \o SplitFrom(s, sep, k + 1, k + 1)
  ELSE SplitFrom(s, sep, start, k + 1)

Split(s, sep) == SplitFrom(s, sep, 1, 1)


(***************************************************************************)
(* Regular expressions of rule_parser.py                                   *)
(*                                                                         *)
(* Each pattern of the source is a concatenation of items anchored at both *)
(* ends: a greedy repetition of a character class (min 0 for "*", 1 for    *)
(* "+") or an ordered alternation of literal texts.  ReMatch is the        *)
(* backtracking search of Python's re: the items are matched left to       *)
(* right, a repetition tries its longest run first, an alternation its     *)
(* alternatives in the order written, and the first complete match wins.   *)
(***************************************************************************)

ReClass(cls, min) == [kind |-> "class", cls |-> cls, min |-> min, alts |-> <<>>, ic |-> FALSE]

ReLit(alts, ic) == [kind |-> "lit", cls |-> "", min |-> 0, alts |-> alts, ic |-> ic]

InClass(cls, c) ==
  IF cls = "word" THEN IsWordChar(c)
  ELSE IF cls = "space" THEN IsSpace(c)
  ELSE IsAnyChar(c)

\* Whether the literal lit occurs in text right after position pos
\* (ic: re.IGNORECASE).
LitAt(lit, ic, text, pos) ==
  /\ pos + Len(lit) <= Len(text)
  /\ \A k \in 1..Len(lit) :
       IF ic THEN LowerChar(text[pos + k]) = LowerChar(lit[k])
       ELSE text[pos + k] = lit[k]

\* The length of the longest run of characters of the class cls right after
\* position pos.
RECURSIVE RunLen(_, _, _)
RunLen(cls, text, pos) ==
  IF pos < Len(text) /\ InClass(cls, text[pos + 1]) THEN 1 + RunLen(cls, text, pos + 1)
  ELSE 0

\* The end positions item it can reach from pos, in the order re tries them.
ReEnds(it, text, pos) ==
  IF it.kind = "class"
  THEN LET run == RunLen(it.cls, text, pos)
       IN  [j \in 1..(IF run >= it.min THEN run - it.min + 1 ELSE 0) |-> pos + run - j + 1]
  ELSE LET hit == {a \in 1..Len(it.alts) : LitAt(it.alts[a], it.ic, text, pos)}
           ord == [j \in 1..Cardinality(hit) |->
                     CHOOSE a \in hit : Cardinality({b \in hit : b < a}) = j - 1]
       IN  [j \in 1..Cardinality(hit) |-> pos + Len(it.alts[ord[j]])]

\* The match of items[k..] on text from pos to the end of the text:
\* [ok, ends], ends[j] the end position of item k+j-1.
RECURSIVE ReMatch(_, _, _, _)
RECURSIVE ReTry(_, _, _, _, _)
ReMatch(items, k, text, pos) ==
  IF k > Len(items) THEN [ok |-> pos = Len(text), ends |-> <<>>]
  ELSE ReTry(items, k, text, ReEnds(items[k], text, pos), 1)

\* The candidates cands[j..] of item k, tried in order.
ReTry(items, k, text, cands, j) ==
  IF j > Len(cands) THEN [ok |-> FALSE, ends |-> <<>>]
  ELSE LET rest == ReMatch(items, k + 1, text, cands[j])
       IN  IF rest.ok THEN [ok |-> TRUE, ends |-> <<cands[j]>> \o rest.ends]
           ELSE ReTry(items, k, text, cands, j + 1)

\* pattern.match(text): [ok, ends] with ends[j] the end position of item j.
Match(items, text) == ReMatch(items, 1, text, 0)

\* match.group of the item j of a successful match m.
Group(m, j, text) == Slice(text, (IF j = 1 THEN 0 ELSE m.ends[j - 1]) + 1, m.ends[j])

COL == ReClass("word", 1)

WS1 == ReClass("space", 1)

WS0 == ReClass("space", 0)

ANY1 == ReClass("any", 1)

\* The comparison pattern with the word "in" among its operators.
_OP_PATTERN_with_in ==
  <<COL, WS0, ReLit(<<<<"=", "=">>, <<"!", "=">>, <<">", "=">>, <<"<", "=">>, <<">">>, <<"<">>, <<"i", "n">>>>, FALSE), WS0, ANY1>>

\* ^(?P<col>[A-Za-z0-9_]+)\s*(?P<op>==|!=|>=|<=|>|<)\s*(?P<val>.+)$
_OP_PATTERN ==
  <<COL, WS0, ReLit(<<<<"=", "=">>, <<"!", "=">>, <<">", "=">>, <<"<", "=">>, <<">">>, <<"<">>>>, FALSE), WS0, ANY1>>

\* ^(?P<col>[A-Za-z0-9_]+)\s+in\s+\{(?P<vals>.+)\}$  (IGNORECASE)
_IN_PATTERN ==
  <<COL, WS1, ReLit(<<<<"i", "n">>>>, TRUE), WS1, ReLit(<<<<"{">>>>, TRUE), ANY1, ReLit(<<<<"}">>>>, TRUE)>>

\* ^(?P<col>[A-Za-z0-9_]+)\s+not\s+in\s+\{(?P<vals>.+)\}$  (IGNORECASE)
_NOT_IN_PATTERN ==
  <<COL, WS1, ReLit(<<<<"n", "o", "t">>>>, TRUE), WS1, ReLit(<<<<"i", "n">>>>, TRUE), WS1,
    ReLit(<<<<"{">>>>, TRUE), ANY1, ReLit(<<<<"}">>>>, TRUE)>>

\* The "is missing" pattern without re.IGNORECASE.
_MISSING_PATTERN_case_sensitive ==
  <<COL, WS1, ReLit(<<<<"i", "s">>>>, FALSE), WS1, ReLit(<<<<"m", "i", "s", "s", "i", "n", "g">>>>, FALSE)>>

\* ^(?P<col>[A-Za-z0-9_]+)\s+is\s+missing$  (IGNORECASE)
_MISSING_PATTERN ==
  <<COL, WS1, ReLit(<<<<"i", "s">>>>, TRUE), WS1, ReLit(<<<<"m", "i", "s", "s", "i", "n", "g">>>>, TRUE)>>

\* ^(?P<col>[A-Za-z0-9_]+)\s+not\s+missing$  (IGNORECASE)
_NOT_MISSING_PATTERN ==
  <<COL, WS1, ReLit(<<<<"n", "o", "t">>>>, TRUE), WS1, ReLit(<<<<"m", "i", "s", "s", "i", "n", "g">>>>, TRUE)>>

\* ^(?P<col>[A-Za-z0-9_]+)\s+between\s+(?P<low>.+)\s+and\s+(?P<high>.+)$  (IGNORECASE)
_BETWEEN_PATTERN ==
  <<COL, WS1, ReLit(<<<<"b", "e", "t", "w", "e", "e", "n">>>>, TRUE), WS1, ANY1, WS1, ReLit(<<<<"a", "n", "d">>>>, TRUE), WS1, ANY1>>


(***************************************************************************)
(* Values: a cell of a table or a literal of a condition                   *)
(***************************************************************************)

\* None / NaN
Null == [t |-> "null", n |-> 0, d |-> 1, s |-> <<>>]

\* A Python int
IntV(n) == [t |-> "int", n |-> n, d |-> 1, s |-> <<>>]

\* A Python float, the decimal fraction n/d
FloatV(n, d) == [t |-> "float", n |-> n, d |-> d, s |-> <<>>]

\* A Python str
StrV(s) == [t |-> "str", n |-> 0, d |-> 1, s |-> s]

\* isinstance(v, (int, float))
IsNumber(v) == v.t \in {"int", "float"}

\* pd.isna(v)
IsNa(v) == v.t = "null"

RECURSIVE DigitsValue(_)
DigitsValue(s) ==
  IF s = <<>> THEN 0
  ELSE 10 * DigitsValue(Slice(s, 1, Len(s) - 1)) + (Ord(s[Len(s)]) - 48)

RECURSIVE Pow10(_)
Pow10(k) == IF k = 0 THEN 1 ELSE 10 * Pow10(k - 1)

IsDigits(s) == Len(s) >= 1 /\ \A k \in 1..Len(s) : IsDigit(s[k])

\* text without its leading sign, if it has one
Unsigned(text) ==
  IF Len(text) >= 1 /\ text[1] \in {"+", "-"} THEN Tail(text) ELSE text

\* re.fullmatch(r"[+-]?\d+(\.\d+)?", text)
IsNumericToken(text) ==
  LET parts == Split(Unsigned(text), ".")
  IN  \/ Len(parts) = 1 /\ IsDigits(parts[1])
      \/ Len(parts) = 2 /\ IsDigits(parts[1]) /\ IsDigits(parts[2])

\* float(text) if "." in text else int(text), for a text IsNumericToken accepts
NumericValue(text) ==
  LET parts == Split(Unsigned(text), ".")
      sign  == IF text[1] = "-" THEN -1 ELSE 1
  IN  IF Len(parts) = 2
      THEN FloatV(sign * DigitsValue(parts[1] \o parts[2]), Pow10(Len(parts[2])))
      ELSE IntV(sign * DigitsValue(parts[1]))

\* str(n) for a natural number n
RECURSIVE NatStr(_)
NatStr(n) == IF n < 10 THEN <<Chr(48 + n)>> ELSE NatStr(n \div 10) \o <<Chr(48 + (n % 10))>>

\* the k decimals of the fraction r/10^k, without trailing zeros (one is kept)
RECURSIVE Decimals(_, _)
Decimals(r, k) ==
  IF k <= 1 THEN <<Chr(48 + (r % 10))>>
  ELSE IF r % 10 = 0 THEN Decimals(r \div 10, k - 1)
  ELSE Decimals(r \div 10, k - 1) \o <<Chr(48 + (r % 10))>>

RECURSIVE Log10(_)
Log10(d) == IF d <= 1 THEN 0 ELSE 1 + Log10(d \div 10)

\* str(v) for a value that is not null
Str(v) ==
  LET a == IF v.n < 0 THEN -v.n ELSE v.n
      sign == IF v.n < 0 THEN <<"-">> ELSE <<>>
  IN  IF v.t = "str" THEN v.s
      ELSE IF v.t = "int" THEN sign \o NatStr(a)
      ELSE sign \o NatStr(a \div v.d) \o <<".">> \o Decimals(a % v.d, Log10(v.d))

(***************************************************************************)
(* rule_parser.py: literals                                                *)
(***************************************************************************)

IsQuote(c) == c = "'" \/ c = "\""

\* _parse_value reading the digits between quotes as a number.
_parse_value_quoted_number(token) ==
  LET text == Strip(token)
      inner == IF Len(text) >= 2 /\ IsQuote(text[1]) /\ IsQuote(text[Len(text)])
               THEN Slice(text, 2, Len(text) - 1) ELSE text
  IN  IF IsNumericToken(inner) THEN NumericValue(inner) ELSE StrV(inner)

_parse_value(token) ==
  LET text == Strip(token)
  IN  IF Len(text) >= 2 /\ IsQuote(text[1]) /\ IsQuote(text[Len(text)])
      THEN StrV(Slice(text, 2, Len(text) - 1))
      ELSE IF IsNumericToken(text) THEN NumericValue(text)
      ELSE StrV(text)

\* [part.strip() for part in parts if part.strip()]
RECURSIVE NonEmpty(_)
NonEmpty(seq) ==
  IF seq = <<>> THEN <<>>
  ELSE IF Strip(seq[1]) # <<>> THEN <<Strip(seq[1])>> \o NonEmpty(Tail(seq))
  ELSE NonEmpty(Tail(seq))

_parse_list(values) ==
  LET parts == NonEmpty(Split(values, ","))
  IN  [k \in 1..Len(parts) |-> _parse_value(parts[k])]


(***************************************************************************)
(* Tables                                                                  *)
(*                                                                         *)
(* A DataFrame is [columns, dtype, rows]: the set of its column names, the *)
(* dtype of each column ("object" or "float64") and its rows in index      *)
(* order, each a function from the column names to values.  The index is   *)
(* the RangeIndex 0..n-1 that io/xpt.py's _normalize sets.  A Series is    *)
(* [dtype, vals].                                                          *)
(***************************************************************************)

\* df[col]
Column(df, col) ==
  [dtype |-> df.dtype[col], vals |-> [k \in 1..Len(df.rows) |-> df.rows[k][col]]]

\* pd.to_numeric(v, errors="coerce") of one cell: a number, or NaN
ToNumeric(v) ==
  IF v.t = "str"
  THEN IF IsNumericToken(v.s) THEN NumericValue(v.s) ELSE Null
  ELSE v

\* series.astype(str) of one cell of a column of the given dtype
AsTypeStr(v, dtype) ==
  IF v.t = "null"
  THEN StrV(IF dtype = "object" THEN <<"N", "o", "n", "e">> ELSE <<"n", "a", "n">>)
  ELSE StrV(Str(v))

(***************************************************************************)
(* rule_parser.py: evaluation                                              *)
(***************************************************************************)

\* _is_missing comparing the text with "" without stripping it.
_is_missing_unstripped(series) ==
  IF series.dtype = "object" \/ series.dtype = "string"
  THEN [k \in 1..Len(series.vals) |->
          \/ IsNa(series.vals[k])
          \/ AsTypeStr(series.vals[k], series.dtype).s = <<>>]
  ELSE [k \in 1..Len(series.vals) |-> IsNa(series.vals[k])]

_is_missing(series) ==
  IF series.dtype = "object" \/ series.dtype = "string"
  THEN [k \in 1..Len(series.vals) |->
          \/ IsNa(series.vals[k])
          \/ Strip(AsTypeStr(series.vals[k], series.dtype).s) = <<>>]
  ELSE [k \in 1..Len(series.vals) |-> IsNa(series.vals[k])]

\* all(isinstance(item, (int, float)) for item in target)
AllNumeric(target) == \A k \in 1..Len(target) : IsNumber(target[k])

\* _coerce_series for a list target
_coerce_series(series, target) ==
  IF AllNumeric(target)
  THEN [dtype |-> "float64", vals |-> [k \in 1..Len(series.vals) |-> ToNumeric(series.vals[k])]]
  ELSE [dtype |-> "object",
        vals |-> [k \in 1..Len(series.vals) |-> AsTypeStr(series.vals[k], series.dtype)]]

\* _coerce_series for a scalar target
_coerce_scalar(series, value) == _coerce_series(series, <<value>>)

\* a < b for two numbers
NumLess(a, b) == a.n * b.d < b.n * a.d

\* a == b for two values, as Python compares them: a number equals a number of
\* the same magnitude, a text an identical text, NaN nothing
ValEq(a, b) ==
  IF IsNumber(a) /\ IsNumber(b) THEN a.n * b.d = b.n * a.d
  ELSE IF a.t = "str" /\ b.t = "str" THEN a.s = b.s
  ELSE FALSE

\* a < b for two values of like type (NaN is less than nothing)
ValLess(a, b) ==
  IF IsNumber(a) /\ IsNumber(b) THEN NumLess(a, b)
  ELSE IF a.t = "str" /\ b.t = "str" THEN StrLess(a.s, b.s)
  ELSE FALSE

\* The element-wise comparisons of a coerced cell v with a literal.
CellEq(v, value) == ValEq(v, value)

CellNe(v, value) == ~ValEq(v, value)

CellGt(v, value) == ValLess(value, v)

\* ">=" evaluated as ">".
CellGe_strict(v, value) == ValLess(value, v)

CellGe(v, value) == ValLess(value, v) \/ ValEq(v, value)

CellLt(v, value) == ValLess(v, value)

CellLe(v, value) == ValLess(v, value) \/ ValEq(v, value)

\* The positions of the rows of a series.
Rows(series) == 1..Len(series.vals)

\* An ordering comparison of a text cell with a number raises TypeError.
Unorderable(series, value) ==
  \E k \in 1..Len(series.vals) : series.vals[k].t = "str" /\ IsNumber(value)

\* series.isin(values)
IsIn(series, values) ==
  [k \in 1..Len(series.vals) |->
     \E j \in 1..Len(values) : ValEq(series.vals[k], values[j])]

Not(mask) == [k \in 1..Len(mask) |-> ~mask[k]]

\* What a call returns or raises.
Returned(mask) == [kind |-> "mask", mask |-> mask, error |-> <<>>]

Raised(kind, text) == [kind |-> kind, mask |-> <<>>, error |-> text]

\* The KeyError of df[col] for a column df does not have.
KeyError(col) == Raised("KeyError", col)

MissingMask(series) == Returned(_is_missing(series))

NotMissingMask(series) == Returned(Not(_is_missing(series)))

InMask(series, values) == Returned(IsIn(_coerce_series(series, values), values))

\* "not in" applied to the column as it is, without _coerce_series.
NotInMask_uncoerced(series, values) == Returned(Not(IsIn(series, values)))

NotInMask(series, values) == Returned(Not(IsIn(_coerce_series(series, values), values)))

\* The range with its upper bound excluded.
BetweenMask_exclusive(series, low, high) ==
  LET cs == _coerce_series(series, <<low, high>>)
  IN  IF Unorderable(cs, low) \/ Unorderable(cs, high)
      THEN Raised("TypeError", <<>>)
      ELSE Returned([k \in 1..Len(cs.vals) |->
                       CellGe(cs.vals[k], low) /\ CellLt(cs.vals[k], high)])

\* (series >= low) & (series <= high)
BetweenMask(series, low, high) ==
  LET cs == _coerce_series(series, <<low, high>>)
  IN  IF Unorderable(cs, low) \/ Unorderable(cs, high)
      THEN Raised("TypeError", <<>>)
      ELSE Returned([k \in 1..Len(cs.vals) |->
                       CellGe(cs.vals[k], low) /\ CellLe(cs.vals[k], high)])

\* The ValueError build_mask raises at its end.
Unsupported(condition) == Raised("ValueError", <<"U", "n", "s", "u", "p", "p", "o", "r", "t", "e", "d", " ", "c", "o", "n", "d", "i", "t", "i", "o", "n", ":", " ">> \o condition)

\* The chain without its last branch, "<=".
OpMask_no_le(series, op, value, condition) ==
  LET cs == _coerce_scalar(series, value)
  IN  IF op = <<"=", "=">> THEN Returned([k \in Rows(cs) |-> CellEq(cs.vals[k], value)])
      ELSE IF op = <<"!", "=">> THEN Returned([k \in Rows(cs) |-> CellNe(cs.vals[k], value)])
      ELSE IF op = <<">">> THEN Returned([k \in Rows(cs) |-> CellGt(cs.vals[k], value)])
      ELSE IF op = <<">", "=">> THEN Returned([k \in Rows(cs) |-> CellGe(cs.vals[k], value)])
      ELSE IF op = <<"<">> THEN Returned([k \in Rows(cs) |-> CellLt(cs.vals[k], value)])
      ELSE Unsupported(condition)

\* The chain "if op == ...: return series <op> value" of build_mask, which
\* falls through to the raise at the end of build_mask.
OpMask(series, op, value, condition) ==
  LET cs == _coerce_scalar(series, value)
  IN  IF op = <<"=", "=">> THEN Returned([k \in Rows(cs) |-> CellEq(cs.vals[k], value)])
      ELSE IF op = <<"!", "=">> THEN Returned([k \in Rows(cs) |-> CellNe(cs.vals[k], value)])
      ELSE IF op = <<">">> THEN Returned([k \in Rows(cs) |-> CellGt(cs.vals[k], value)])
      ELSE IF op = <<">", "=">> THEN Returned([k \in Rows(cs) |-> CellGe(cs.vals[k], value)])
      ELSE IF op = <<"<">> THEN Returned([k \in Rows(cs) |-> CellLt(cs.vals[k], value)])
      ELSE IF op = <<"<", "=">> THEN Returned([k \in Rows(cs) |-> CellLe(cs.vals[k], value)])
      ELSE Unsupported(condition)

build_mask(df, condition) ==
  LET text == Strip(condition)
      mMissing    == Match(_MISSING_PATTERN, text)
      mNotMissing == Match(_NOT_MISSING_PATTERN, text)
      mIn         == Match(_IN_PATTERN, text)
      mNotIn      == Match(_NOT_IN_PATTERN, text)
      mBetween    == Match(_BETWEEN_PATTERN, text)
      mOp         == Match(_OP_PATTERN, text)
      inVals      == _parse_list(Group(mIn, 6, text))
      notInVals   == _parse_list(Group(mNotIn, 8, text))
      low         == _parse_value(Group(mBetween, 5, text))
      high        == _parse_value(Group(mBetween, 9, text))
      op          == Group(mOp, 3, text)
      value       == _parse_value(Group(mOp, 5, text))
      Has(m)      == Upper(Group(m, 1, text)) \in df.columns
      col(m)      == Column(df, Upper(Group(m, 1, text)))
      NoColumn(m) == KeyError(Upper(Group(m, 1, text)))
  IN  IF mMissing.ok
      THEN IF Has(mMissing) THEN MissingMask(col(mMissing)) ELSE NoColumn(mMissing)
      ELSE IF mNotMissing.ok
      THEN IF Has(mNotMissing) THEN NotMissingMask(col(mNotMissing))
           ELSE NoColumn(mNotMissing)
      ELSE IF mIn.ok
      THEN IF Has(mIn) THEN InMask(col(mIn), inVals) ELSE NoColumn(mIn)
      ELSE IF mNotIn.ok
      THEN IF Has(mNotIn) THEN NotInMask(col(mNotIn), notInVals) ELSE NoColumn(mNotIn)
      ELSE IF mBetween.ok
      THEN IF Has(mBetween) THEN BetweenMask(col(mBetween), low, high)
           ELSE NoColumn(mBetween)
      ELSE IF mOp.ok
      THEN IF Has(mOp) THEN OpMask(col(mOp), op, value, condition) ELSE NoColumn(mOp)
      ELSE Unsupported(condition)

(***************************************************************************)
(* rules.py and rule_engine.py                                             *)
(***************************************************************************)

\* Optional[...]: None, or a value
None == <<>>

Some(x) == <<x>>

\* The Violation dataclass.
Violation(rule, message, row_index, record_key, value) ==
  [rule_id |-> rule.id, source |-> rule.source, domain |-> rule.domain,
   variable |-> rule.variable, severity |-> rule.severity, message |-> message,
   row_index |-> row_index, record_key |-> record_key, value |-> value,
   condition |-> rule.condition]

\* _missing_domain_violation with the message of the missing variable.
_missing_domain_violation_pasted(rule) ==
  Violation(rule, <<"V", "a", "r", "i", "a", "b", "l", "e", " ">> \o rule.variable \o <<" ", "n", "o", "t", " ", "f", "o", "u", "n", "d", " ", "i", "n", " ">> \o rule.domain,
            None, None, None)

_missing_domain_violation(rule) ==
  Violation(rule, <<"D", "o", "m", "a", "i", "n", " ">> \o rule.domain \o <<" ", "n", "o", "t", " ", "f", "o", "u", "n", "d">>, None, None, None)

\* _missing_variable_violation with domain and variable exchanged.
_missing_variable_violation_swapped(rule) ==
  Violation(rule, <<"V", "a", "r", "i", "a", "b", "l", "e", " ">> \o rule.domain \o <<" ", "n", "o", "t", " ", "f", "o", "u", "n", "d", " ", "i", "n", " ">> \o rule.variable,
            None, None, None)

_missing_variable_violation(rule) ==
  Violation(rule, <<"V", "a", "r", "i", "a", "b", "l", "e", " ">> \o rule.variable \o <<" ", "n", "o", "t", " ", "f", "o", "u", "n", "d", " ", "i", "n", " ">> \o rule.domain,
            None, None, None)

\* The keys _get_record_key probes, in order.
RecordKeys == <<<<"U", "S", "U", "B", "J", "I", "D">>, <<"S", "U", "B", "J", "I", "D">>, <<"S", "T", "U", "D", "Y", "I", "D">>>>

\* key in row.index and pd.notna(row[key])
HasKey(row, key) == key \in DOMAIN row /\ ~IsNa(row[key])

_get_record_key(row) ==
  LET hit == {j \in 1..Len(RecordKeys) : HasKey(row, RecordKeys[j])}
  IN  IF hit = {} THEN None ELSE Some(Str(row[RecordKeys[Min(hit)]]))

\* RowViolation reporting the 0-based index label itself.
RowViolation_zero_based(rule, row, idx) ==
  LET value == row[Upper(rule.variable)]
  IN  Violation(rule, rule.message, Some(idx), _get_record_key(row),
                IF IsNa(value) THEN None ELSE Some(Str(value)))

\* The Violation run_rules builds for the row at index label idx (0-based).
RowViolation(rule, row, idx) ==
  LET value == row[Upper(rule.variable)]
  IN  Violation(rule, rule.message, Some(idx + 1), _get_record_key(row),
                IF IsNa(value) THEN None ELSE Some(Str(value)))

\* RowViolations walking the selected rows from the last to the first.
RECURSIVE RowViolations_descending(_, _, _, _)
RowViolations_descending(rule, df, mask, k) ==
  IF k > Len(df.rows) THEN <<>>
  ELSE RowViolations_descending(rule, df, mask, k + 1)
       \o (IF mask[k] THEN <<RowViolation(rule, df.rows[k], k - 1)>> ELSE <<>>)

\* for idx, row in df[mask].iterrows(): the violations of the selected rows,
\* in index order
RECURSIVE RowViolations(_, _, _, _)
RowViolations(rule, df, mask, k) ==
  IF k > Len(df.rows) THEN <<>>
  ELSE (IF mask[k] THEN <<RowViolation(rule, df.rows[k], k - 1)>> ELSE <<>>)
       \o RowViolations(rule, df, mask, k + 1)


(***************************************************************************)
(* Inputs of a validation run                                              *)
(***************************************************************************)

\* The most rules handed to one run, and the most rows of a table.
MaxRules == 2

MaxRows == 2

DM == <<"D", "M">>

USUBJID == <<"U", "S", "U", "B", "J", "I", "D">>

SUBJID == <<"S", "U", "B", "J", "I", "D">>

AGE == <<"A", "G", "E">>

SEX == <<"S", "E", "X">>

\* The columns of the DM table (STUDYID and WEIGHT are not among them).
DMColumns == {USUBJID, SUBJID, AGE, SEX}

DMRow(usubjid, subjid, age, sex) ==
  [c \in DMColumns |->
     IF c = USUBJID THEN usubjid
     ELSE IF c = SUBJID THEN subjid
     ELSE IF c = AGE THEN age
     ELSE sex]

\* The rows a DM table is made of: one with both subject keys and a high AGE;
\* one whose USUBJID is blank text and whose AGE is null; one whose USUBJID is
\* null and whose AGE is blank text; one with no key at all and a high AGE
\* written as text.
RowSet ==
  { DMRow(StrV(<<"S", "1">>), StrV(<<"S", "2">>), IntV(150), StrV(<<"M">>)),
    DMRow(StrV(<<" ">>), StrV(<<"S", "2">>), Null, StrV(<<>>)),
    DMRow(Null, StrV(<<"S", "2">>), StrV(<<" ">>), Null),
    DMRow(Null, Null, StrV(<<"2", "0", "0">>), StrV(<<" ">>)) }

\* The sequences over S of length 0..n.
SeqUpTo(S, n) == UNION {[1..k -> S] : k \in 0..n}

\* A column of numbers and nulls read as float64: its ints are floats.
AsFloat(v) == IF v.t = "int" THEN FloatV(v.n, 1) ELSE v

\* The DM tables: every sequence of rows, AGE an object column, or a float64
\* column when all its values are numbers or null; the other columns are text.
ObjectTable(rows) ==
  [columns |-> DMColumns, dtype |-> [c \in DMColumns |-> "object"], rows |-> rows]

FloatTable(rows) ==
  [columns |-> DMColumns,
   dtype |-> [c \in DMColumns |-> IF c = AGE THEN "float64" ELSE "object"],
   rows |-> [k \in 1..Len(rows) |-> [rows[k] EXCEPT ![AGE] = AsFloat(@)]]]

DMTables ==
  {ObjectTable(rows) : rows \in SeqUpTo(RowSet, MaxRows)}
  \cup {FloatTable(rows) :
          rows \in {r \in SeqUpTo(RowSet, MaxRows) :
                      \A k \in 1..Len(r) : r[k][AGE].t # "str"}}

\* The table mappings a run is given: DM alone, or no table at all.
TableMaps == {[d \in {DM} |-> t] : t \in DMTables} \cup {[d \in {} |-> Null]}

Rule(id, domain, variable, condition, severity, message, source) ==
  [id |-> id, domain |-> domain, variable |-> variable, condition |-> condition,
   severity |-> severity, message |-> message, source |-> source]

\* The rules a run is given.  DM2 is written in lower case, as a caller of
\* run_rules may write a Rule (load_rules stores upper case); AE1 names a
\* domain that is never loaded and DM4 a variable DM lacks, both with a
\* condition of no grammar form; DM5 has such a condition on a variable that
\* exists; the condition of DM6 names another column than its variable.
RuleSet ==
  { Rule(<<"D", "M", "1">>, DM, AGE, <<"A", "G", "E", " ", ">", " ", "1", "2", "0">>, <<"E", "R", "R", "O", "R">>, <<"A", "g", "e", " ", "t", "o", "o", " ", "h", "i", "g", "h">>, "core"),
    Rule(<<"D", "M", "2">>, <<"d", "m">>, <<"a", "g", "e">>, <<"a", "g", "e", " ", "i", "s", " ", "m", "i", "s", "s", "i", "n", "g">>, <<"W", "A", "R", "N", "I", "N", "G">>, <<"A", "g", "e", " ", "m", "i", "s", "s", "i", "n", "g">>, "core"),
    Rule(<<"A", "E", "1">>, <<"A", "E">>, <<"A", "E", "S", "E", "V">>, <<"A", "E", "S", "E", "V", " ", "~", " ", "1">>, <<"E", "R", "R", "O", "R">>, <<"B", "a", "d", " ", "s", "e", "v", "e", "r", "i", "t", "y">>, "core"),
    Rule(<<"D", "M", "4">>, DM, <<"W", "E", "I", "G", "H", "T">>, <<"W", "E", "I", "G", "H", "T", " ", "=", " ", "0">>, <<"E", "R", "R", "O", "R">>, <<"B", "a", "d", " ", "w", "e", "i", "g", "h", "t">>, "custom"),
    Rule(<<"D", "M", "5">>, DM, AGE, <<"A", "G", "E", " ", "=", " ", "5">>, <<"E", "R", "R", "O", "R">>, <<"A", "g", "e", " ", "i", "s", " ", "f", "i", "v", "e">>, "custom"),
    Rule(<<"D", "M", "6">>, DM, AGE, <<"W", "E", "I", "G", "H", "T", " ", ">", " ", "5">>, <<"E", "R", "R", "O", "R">>, <<"T", "o", "o", " ", "h", "e", "a", "v", "y">>, "custom") }


(***************************************************************************)
(* Inputs of build_mask                                                    *)
(***************************************************************************)

\* The cells of the AGE column build_mask is applied to.
ValueSet ==
  { Null, IntV(5), IntV(150), StrV(<<>>), StrV(<<" ">>), StrV(<<"5">>),
    StrV(<<"o", "o", "p", "s">>), StrV(<<"M">>) }

\* A frame of the single column AGE.
Frame(dtype, vals) ==
  [columns |-> {AGE}, dtype |-> [c \in {AGE} |-> dtype],
   rows |-> [k \in 1..Len(vals) |-> [c \in {AGE} |-> vals[k]]]]

Frames ==
  {Frame("object", vals) : vals \in SeqUpTo(ValueSet, MaxRows)}
  \cup {Frame("float64", [k \in 1..Len(vals) |-> AsFloat(vals[k])]) :
          vals \in SeqUpTo({v \in ValueSet : v.t # "str"}, MaxRows)}

\* The conditions whose masks are examined on every frame: the two missing
\* forms, and each comparison operator with a numeric and with a text literal.
OpTexts == {<<"=", "=">>, <<"!", "=">>, <<">">>, <<">", "=">>, <<"<">>, <<"<", "=">>}

\* The literal sets of the membership conditions: numbers, texts, the texts
\* that astype(str) gives a null, and a number with a text.
SetTexts == {<<"{", "5", ",", " ", "1", "5", "0", "}">>, <<"{", "'", "M", "'", ",", " ", "'", "o", "o", "p", "s", "'", "}">>, <<"{", "'", "N", "o", "n", "e", "'", ",", " ", "'", "n", "a", "n", "'", "}">>, <<"{", "5", ",", " ", "'", "M", "'", "}">>}

\* The bounds of the range conditions: numbers in order and in reverse order,
\* a number with a text, and two texts.
BoundTexts == {<<"5", " ", "a", "n", "d", " ", "1", "5", "0">>, <<"1", "5", "0", " ", "a", "n", "d", " ", "5">>, <<"5", " ", "a", "n", "d", " ", "a", "b", "c">>, <<"A", " ", "a", "n", "d", " ", "Z">>}

ValueConds ==
  {<<"A", "G", "E", " ", "i", "s", " ", "m", "i", "s", "s", "i", "n", "g">>, <<"A", "G", "E", " ", "n", "o", "t", " ", "m", "i", "s", "s", "i", "n", "g">>}
  \cup {AGE \o <<" ">> \o op \o <<" ">> \o lit :
          op \in OpTexts, lit \in {<<"5">>, <<"1", "5", "0", ".", "0">>, <<"'", "M", "'">>, <<"o", "o", "p", "s">>}}
  \cup {AGE \o kw \o set : kw \in {<<" ", "i", "n", " ">>, <<" ", "n", "o", "t", " ", "i", "n", " ">>}, set \in SetTexts}
  \cup {AGE \o <<" ", "b", "e", "t", "w", "e", "e", "n", " ">> \o bounds : bounds \in BoundTexts}

\* The conditions whose parsing is examined: a column token, a middle and a
\* tail, separated and padded by optional white space.
CondCols == {AGE, <<"a", "g", "e">>, SEX}

CondSeps == {<<>>, <<" ">>}

CondMids ==
  { <<"i", "s">>, <<"I", "s">>, <<"n", "o", "t">>, <<"i", "n">>, <<"n", "o", "t", " ", "i", "n">>, <<"N", "O", "T", "\t", "I", "N">>, <<"b", "e", "t", "w", "e", "e", "n">>, <<"=", "=">>,
    <<"!", "=">>, <<">", "=">>, <<"<", "=">>, <<">">>, <<"<">>, <<">", ">">>, <<"=">>, <<"=", ">">>, <<>> }

CondTails ==
  { <<"m", "i", "s", "s", "i", "n", "g">>, <<"M", "I", "S", "S", "I", "N", "G">>, <<"{", "5", "}">>, <<"{", "'", "M", "'", ",", " ", "5", "}">>, <<"{", ",", "}">>, <<"{", "}">>, <<"5">>, <<"'", "M", "'">>,
    <<"1", " ", "a", "n", "d", " ", "5">>, <<"5", " ", "A", "N", "D", " ", "a", "b", "c">>, <<">", " ", "5">>, <<"a", "n", "d">>, <<>> }

CondPads == {<<>>, <<" ", "\t">>}

GrammarConds ==
  {pad \o col \o s1 \o mid \o s2 \o tail \o pad :
     pad \in CondPads, col \in CondCols, s1 \in CondSeps, mid \in CondMids,
     s2 \in CondSeps, tail \in CondTails}

\* The frames the parsed conditions are applied to: the columns
\* [150, "oops", null, 100] and ["", null, " ", "X"].
GrammarFrames ==
  { Frame("object", <<IntV(150), StrV(<<"o", "o", "p", "s">>), Null, IntV(100)>>),
    Frame("object", <<StrV(<<>>), Null, StrV(<<" ">>), StrV(<<"X">>)>>) }

\* A frame of one column of any name.
FrameOf(col, dtype, vals) ==
  [columns |-> {col}, dtype |-> [c \in {col} |-> dtype],
   rows |-> [k \in 1..Len(vals) |-> [c \in {col} |-> vals[k]]]]

\* Single calls of build_mask: a numeric comparison over numbers, a text and a
\* null; an exclusion over texts and a null; a range with a numeric and a
\* text bound.
ExampleCalls ==
  { <<FrameOf(AGE, "object", <<IntV(150), StrV(<<"o", "o", "p", "s">>), Null, IntV(100)>>), <<"A", "G", "E", " ", ">", " ", "1", "2", "0">>>>,
    <<FrameOf(SEX, "object", <<StrV(<<"M">>), StrV(<<"F">>), StrV(<<"U">>), StrV(<<"X">>), Null>>),
      <<"S", "E", "X", " ", "n", "o", "t", " ", "i", "n", " ", "{", "'", "M", "'", ",", "'", "F", "'", ",", "'", "U", "'", "}">>>>,
    <<FrameOf(<<"X">>, "object", <<IntV(1), StrV(<<"b">>)>>), <<"X", " ", "b", "e", "t", "w", "e", "e", "n", " ", "1", " ", "a", "n", "d", " ", "a", "b", "c">>>> }

(***************************************************************************)
(* rule_loader.py and validation.py                                        *)
(*                                                                         *)
(* A rules file is None when its path does not exist, and otherwise        *)
(* Some(data), data the list of JSON objects it holds.  A JSON object is a *)
(* function from its keys to values.                                       *)
(***************************************************************************)

REQUIRED_FIELDS == {<<"i", "d">>, <<"d", "o", "m", "a", "i", "n">>, <<"v", "a", "r", "i", "a", "b", "l", "e">>, <<"c", "o", "n", "d", "i", "t", "i", "o", "n">>, <<"s", "e", "v", "e", "r", "i", "t", "y">>, <<"m", "e", "s", "s", "a", "g", "e">>}

\* str(v)
PyStr(v) == IF v.t = "null" THEN <<"N", "o", "n", "e">> ELSE Str(v)

\* sorted(S) for a set of texts
RECURSIVE Sorted(_)
Sorted(S) ==
  IF S = {} THEN <<>>
  ELSE LET least == CHOOSE x \in S : \A y \in S \ {x} : StrLess(x, y)
       IN  <<least>> \o Sorted(S \ {least})

\* The items of the repr of a list of texts, separated by ", ".
RECURSIVE ReprItems(_)
ReprItems(seq) ==
  IF seq = <<>> THEN <<>>
  ELSE <<"'">> \o seq[1] \o <<"'">>
       \o (IF Len(seq) > 1 THEN <<",", " ">> ELSE <<>>) \o ReprItems(Tail(seq))

\* f"{seq}" for a list of texts
ListRepr(seq) == <<"[">> \o ReprItems(seq) \o <<"]">>

\* What load_rules returns or raises.
Loaded(list) == [kind |-> "rules", rules |-> list, error |-> <<>>]

LoadError(text) == [kind |-> "ValueError", rules |-> <<>>, error |-> text]

\* The Rule load_rules builds from an item that has every required field.
LoadedRule(item, source) ==
  Rule(Strip(PyStr(item[<<"i", "d">>])),
       Upper(Strip(PyStr(item[<<"d", "o", "m", "a", "i", "n">>]))),
       Upper(Strip(PyStr(item[<<"v", "a", "r", "i", "a", "b", "l", "e">>]))),
       Strip(PyStr(item[<<"c", "o", "n", "d", "i", "t", "i", "o", "n">>])),
       Upper(Strip(PyStr(item[<<"s", "e", "v", "e", "r", "i", "t", "y">>]))),
       Strip(PyStr(item[<<"m", "e", "s", "s", "a", "g", "e">>])),
       source)

\* The loop of load_rules leaving out the items that lack a field.
RECURSIVE LoadItems_lenient(_, _, _, _)
LoadItems_lenient(data, k, source, built) ==
  IF k > Len(data) THEN Loaded(built)
  ELSE IF REQUIRED_FIELDS \ DOMAIN data[k] # {}
  THEN LoadItems_lenient(data, k + 1, source, built)
  ELSE LoadItems_lenient(data, k + 1, source, Append(built, LoadedRule(data[k], source)))

\* The loop of load_rules from the item at position k (index k - 1) on, with
\* the rules built so far.
RECURSIVE LoadItems(_, _, _, _)
LoadItems(data, k, source, built) ==
  IF k > Len(data) THEN Loaded(built)
  ELSE LET missing == REQUIRED_FIELDS \ DOMAIN data[k]
       IN  IF missing # {}
           THEN LoadError(<<"R", "u", "l", "e", " ", "a", "t", " ", "i", "n", "d", "e", "x", " ">> \o NatStr(k - 1) \o <<" ", "m", "i", "s", "s", "i", "n", "g", " ", "f", "i", "e", "l", "d", "s", ":", " ">>
                          \o ListRepr(Sorted(missing)))
           ELSE LoadItems(data, k + 1, source, Append(built, LoadedRule(data[k], source)))

load_rules(path, source) ==
  IF path = None THEN Loaded(<<>>) ELSE LoadItems(path[1], 1, source, <<>>)

\* What load_all_rules returns or raises.
AllLoaded(all_rules) ==
  [kind |-> "rules", rules |-> all_rules,
   order |-> [k \in 1..Len(all_rules) |-> all_rules[k].id], error |-> <<>>]

AllLoadError(text) == [kind |-> "ValueError", rules |-> <<>>, order |-> <<>>, error |-> text]

\* load_all_rules putting the custom rules before the core rules.
load_all_rules_custom_first(core_rules_path, custom_rules_path) ==
  LET core_rules == load_rules(core_rules_path, "core")
      custom_rules == load_rules(custom_rules_path, "custom")
  IN  IF core_rules.kind # "rules" THEN AllLoadError(core_rules.error)
      ELSE IF custom_rules.kind # "rules" THEN AllLoadError(custom_rules.error)
      ELSE AllLoaded(custom_rules.rules \o core_rules.rules)

load_all_rules(core_rules_path, custom_rules_path) ==
  LET core_rules == load_rules(core_rules_path, "core")
      custom_rules == load_rules(custom_rules_path, "custom")
  IN  IF core_rules.kind # "rules" THEN AllLoadError(core_rules.error)
      ELSE IF custom_rules.kind # "rules" THEN AllLoadError(custom_rules.error)
      ELSE AllLoaded(core_rules.rules \o custom_rules.rules)

\* A JSON object with the six required fields.
Item(id, domain, variable, condition, severity, message) ==
  [key \in REQUIRED_FIELDS |->
     IF key = <<"i", "d">> THEN id
     ELSE IF key = <<"d", "o", "m", "a", "i", "n">> THEN domain
     ELSE IF key = <<"v", "a", "r", "i", "a", "b", "l", "e">> THEN variable
     ELSE IF key = <<"c", "o", "n", "d", "i", "t", "i", "o", "n">> THEN condition
     ELSE IF key = <<"s", "e", "v", "e", "r", "i", "t", "y">> THEN severity
     ELSE message]

\* The objects of the rules files: a rule as load_rules stores it; a rule
\* written in lower case with white space around its fields; a rule with a
\* number for id, on a variable DM lacks; a rule whose condition has no grammar
\* form; an object without severity and message; an object with the variable
\* and a key that is no field of a rule.
FileItems ==
  { Item(StrV(<<"D", "M", "1">>), StrV(DM), StrV(AGE), StrV(<<"A", "G", "E", " ", ">", " ", "1", "2", "0">>), StrV(<<"E", "R", "R", "O", "R">>),
         StrV(<<"A", "g", "e", " ", "t", "o", "o", " ", "h", "i", "g", "h">>)),
    Item(StrV(<<" ", "D", "M", "2">>), StrV(<<"d", "m", " ">>), StrV(<<" ", "a", "g", "e">>), StrV(<<" ", "a", "g", "e", " ", "i", "s", " ", "m", "i", "s", "s", "i", "n", "g", " ">>),
         StrV(<<"w", "a", "r", "n", "i", "n", "g">>), StrV(<<"A", "g", "e", " ", "m", "i", "s", "s", "i", "n", "g", " ">>)),
    Item(IntV(4), StrV(DM), StrV(<<"W", "E", "I", "G", "H", "T">>), StrV(<<"W", "E", "I", "G", "H", "T", " ", "=", " ", "0">>), StrV(<<"E", "R", "R", "O", "R">>),
         StrV(<<"B", "a", "d", " ", "w", "e", "i", "g", "h", "t">>)),
    Item(StrV(<<"D", "M", "5">>), StrV(DM), StrV(AGE), StrV(<<"A", "G", "E", " ", "=", " ", "5">>), StrV(<<"E", "R", "R", "O", "R">>),
         StrV(<<"A", "g", "e", " ", "i", "s", " ", "f", "i", "v", "e">>)),
    [key \in {<<"i", "d">>, <<"d", "o", "m", "a", "i", "n">>, <<"v", "a", "r", "i", "a", "b", "l", "e">>, <<"c", "o", "n", "d", "i", "t", "i", "o", "n">>} |->
       IF key = <<"i", "d">> THEN StrV(<<"D", "M", "7">>)
       ELSE IF key = <<"d", "o", "m", "a", "i", "n">> THEN StrV(DM)
       ELSE IF key = <<"v", "a", "r", "i", "a", "b", "l", "e">> THEN StrV(AGE)
       ELSE StrV(<<"A", "G", "E", " ", ">", " ", "1", "2", "0">>)],
    [key \in {<<"v", "a", "r", "i", "a", "b", "l", "e">>, <<"n", "o", "t", "e">>} |-> StrV(AGE)] }

\* The two rules files of a run: each absent, or a list of objects; together
\* they hold at most MaxRules objects.
FilePairs ==
  {pair \in ({None} \cup {Some(data) : data \in SeqUpTo(FileItems, MaxRules)})
              \X ({None} \cup {Some(data) : data \in SeqUpTo(FileItems, MaxRules)}) :
     (IF pair[1] = None THEN 0 ELSE Len(pair[1][1]))
       + (IF pair[2] = None THEN 0 ELSE Len(pair[2][1])) <= MaxRules}

\* The table mappings run_validation is given: DM with one row, or no table.
ValidationTables ==
  {[d \in {DM} |-> ObjectTable(<<row>>)] : row \in RowSet} \cup {[d \in {} |-> Null]}

(***************************************************************************)
(* rule_manager.py, rule_loader.save_rules and the rule pages of main.py   *)
(*                                                                         *)
(* A rule of the session list (a dict) is a function from the six column   *)
(* names to texts.  A row of a DataFrame of rules is a function from the   *)
(* column names to values (a text, or null for an empty cell).             *)
(***************************************************************************)

RULE_COLUMNS == <<<<"i", "d">>, <<"d", "o", "m", "a", "i", "n">>, <<"v", "a", "r", "i", "a", "b", "l", "e">>, <<"c", "o", "n", "d", "i", "t", "i", "o", "n">>, <<"s", "e", "v", "e", "r", "i", "t", "y">>, <<"m", "e", "s", "s", "a", "g", "e">>>>

MAX_RULES_PER_DOMAIN == 20

\* A dict of the session list.
RuleDict(id, domain, variable, condition, severity, message) ==
  [key \in REQUIRED_FIELDS |->
     IF key = <<"i", "d">> THEN id
     ELSE IF key = <<"d", "o", "m", "a", "i", "n">> THEN domain
     ELSE IF key = <<"v", "a", "r", "i", "a", "b", "l", "e">> THEN variable
     ELSE IF key = <<"c", "o", "n", "d", "i", "t", "i", "o", "n">> THEN condition
     ELSE IF key = <<"s", "e", "v", "e", "r", "i", "t", "y">> THEN severity
     ELSE message]

\* x in seq
Contains(seq, x) == \E k \in 1..Len(seq) : seq[k] = x

\* sep.join(seq)
RECURSIVE Join(_, _)
Join(seq, sep) ==
  IF seq = <<>> THEN <<>>
  ELSE IF Len(seq) = 1 THEN seq[1]
  ELSE seq[1] \o sep \o Join(Tail(seq), sep)

\* [r["id"] for r in custom_rules_list]
IdsOf(list) == [k \in 1..Len(list) |-> list[k][<<"i", "d">>]]

\* The loop "new_id = f'{base_id}_{counter}'; while new_id in existing_ids".
RECURSIVE UniqueId(_, _, _)
UniqueId(base_id, counter, existing_ids) ==
  LET new_id == base_id \o <<"_">> \o NatStr(counter)
  IN  IF Contains(existing_ids, new_id)
      THEN UniqueId(base_id, counter + 1, existing_ids)
      ELSE new_id

\* f"{n:03d}"
Pad3(n) ==
  LET digits == NatStr(n)
  IN  IF Len(digits) >= 3 THEN digits
      ELSE [k \in 1..(3 - Len(digits)) |-> "0"] \o digits

\* The number of a rule id of the form <domain><digits>, 0 for any other id.
IdNumber(clean_domain, rule_id) ==
  IF /\ Len(rule_id) > Len(clean_domain)
     /\ SubSeq(rule_id, 1, Len(clean_domain)) = clean_domain
     /\ IsDigits(SubSeq(rule_id, Len(clean_domain) + 1, Len(rule_id)))
  THEN DigitsValue(SubSeq(rule_id, Len(clean_domain) + 1, Len(rule_id)))
  ELSE 0

\* The loop "while candidate in existing_set: next_num += 1".
RECURSIVE NextCandidate(_, _, _)
NextCandidate(clean_domain, next_num, existing_ids) ==
  IF Contains(existing_ids, clean_domain \o Pad3(next_num))
  THEN NextCandidate(clean_domain, next_num + 1, existing_ids)
  ELSE clean_domain \o Pad3(next_num)

\* The largest of a set of naturals, 0 for the empty set.
Max0(S) == IF S = {} THEN 0 ELSE CHOOSE x \in S : \A y \in S : y <= x

generate_next_rule_id(domain, custom_rules_list) ==
  LET clean_domain == Upper(Strip(domain))
      existing_ids == [k \in 1..Len(custom_rules_list) |->
                         Upper(Strip(custom_rules_list[k][<<"i", "d">>]))]
      max_num == Max0({IdNumber(clean_domain, existing_ids[k]) : k \in 1..Len(existing_ids)})
  IN  IF clean_domain = <<>> THEN <<>>
      ELSE NextCandidate(clean_domain, max_num + 1, existing_ids)

\* add_rule_from_template storing every rule under the template's id.
add_rule_from_template_same_id(template, custom_rules_list) ==
  Append(custom_rules_list,
         RuleDict(template.id, template.domain, template.variable,
                  template.condition, template.severity, template.message))

\* The session list after add_rule_from_template.
add_rule_from_template(template, custom_rules_list) ==
  LET existing_ids == IdsOf(custom_rules_list)
      template_id == IF Contains(existing_ids, template.id)
                     THEN UniqueId(template.id, 1, existing_ids)
                     ELSE template.id
  IN  Append(custom_rules_list,
             RuleDict(template_id, template.domain, template.variable,
                      template.condition, template.severity, template.message))

\* What add_rule_from_fields returns, with the session list it leaves.
add_rule_from_fields(rule_fields, custom_rules_list) ==
  LET domain == Upper(Strip(rule_fields[<<"d", "o", "m", "a", "i", "n">>]))
      given == Strip(rule_fields[<<"i", "d">>])
      rule_id == IF given = <<>> THEN generate_next_rule_id(domain, custom_rules_list)
                 ELSE given
      existing_ids == IdsOf(custom_rules_list)
      stored_id == IF Contains(existing_ids, rule_id)
                   THEN UniqueId(rule_id, 1, existing_ids)
                   ELSE rule_id
  IN  IF rule_id = <<>> THEN [added |-> FALSE, list |-> custom_rules_list]
      ELSE [added |-> TRUE,
            list |-> Append(custom_rules_list,
                            RuleDict(stored_id, domain,
                                     Upper(Strip(rule_fields[<<"v", "a", "r", "i", "a", "b", "l", "e">>])),
                                     Strip(rule_fields[<<"c", "o", "n", "d", "i", "t", "i", "o", "n">>]),
                                     Upper(Strip(rule_fields[<<"s", "e", "v", "e", "r", "i", "t", "y">>])),
                                     Strip(rule_fields[<<"m", "e", "s", "s", "a", "g", "e">>])))]

\* pd.DataFrame(custom_rules_list): the rows of get_rules_dataframe
get_rules_dataframe(custom_rules_list) ==
  [k \in 1..Len(custom_rules_list) |->
     [key \in REQUIRED_FIELDS |-> StrV(custom_rules_list[k][key])]]

\* str(row[col]).strip() for every column of a row
RowTexts(row) == [key \in REQUIRED_FIELDS |-> Strip(PyStr(row[key]))]

\* all(pd.isna(row[col]) or str(row[col]).strip() == "" for col in df.columns)
EmptyRow(row) == \A key \in REQUIRED_FIELDS : IsNa(row[key]) \/ Strip(PyStr(row[key])) = <<>>

\* The session list update_rules_from_dataframe sets.
RECURSIVE update_rules_from_dataframe(_)
update_rules_from_dataframe(df) ==
  IF df = <<>> THEN <<>>
  ELSE (IF EmptyRow(df[1]) THEN <<>> ELSE <<RowTexts(df[1])>>)
       \o update_rules_from_dataframe(Tail(df))

\* Both validate_rules and _rules_from_editor go once through a list of
\* entries: the values of a rule, the columns they report as missing, and the
\* words their error message starts with ("Rule 3", "Row 3").  What an
\* iteration adds to rules, errors, seen_ids and domain_counts depends on the
\* entries before it only through the ids and domains of those that had
\* nothing missing, so the outcome of the loop is written down per entry.
Entry(values, missing, label) == [values |-> values, missing |-> missing, label |-> label]

\* The iterations before the k-th that went past the "continue".
KeptBefore(entries, k) == {j \in 1..(k - 1) : entries[j].missing = <<>>}

\* "rule_id in seen_ids" finding nothing.
DuplicateAt_never(entries, k) == FALSE

\* "rule_id in seen_ids" at the k-th entry
DuplicateAt(entries, k) ==
  \E j \in KeptBefore(entries, k) : entries[j].values[<<"i", "d">>] = entries[k].values[<<"i", "d">>]

\* domain_counts[domain] after the k-th entry was counted
DomainCountAt(entries, k) ==
  Cardinality({j \in KeptBefore(entries, k) :
                 Upper(entries[j].values[<<"d", "o", "m", "a", "i", "n">>]) = Upper(entries[k].values[<<"d", "o", "m", "a", "i", "n">>])}) + 1

\* The errors the k-th iteration appends.
ErrorsAt(entries, k) ==
  IF entries[k].missing # <<>>
  THEN <<entries[k].label \o <<":", " ", "M", "i", "s", "s", "i", "n", "g", " ">> \o Join(entries[k].missing, <<",", " ">>)>>
  ELSE (IF DuplicateAt(entries, k)
        THEN <<<<"D", "u", "p", "l", "i", "c", "a", "t", "e", " ", "I", "D", ":", " ">> \o entries[k].values[<<"i", "d">>]>> ELSE <<>>)
       \o (IF DomainCountAt(entries, k) > MAX_RULES_PER_DOMAIN
           THEN <<<<"D", "o", "m", "a", "i", "n", " ">> \o Upper(entries[k].values[<<"d", "o", "m", "a", "i", "n">>]) \o <<" ", "e", "x", "c", "e", "e", "d", "s", " ">>
                    \o NatStr(MAX_RULES_PER_DOMAIN) \o <<" ", "r", "u", "l", "e", "s", " ", "l", "i", "m", "i", "t">>>>
           ELSE <<>>)

\* errors after the first n iterations
RECURSIVE ErrorsUpTo(_, _)
ErrorsUpTo(entries, n) ==
  IF n = 0 THEN <<>> ELSE ErrorsUpTo(entries, n - 1) \o ErrorsAt(entries, n)

\* The Rule an iteration appends.
RuleOf(values) ==
  Rule(values[<<"i", "d">>], Upper(values[<<"d", "o", "m", "a", "i", "n">>]), Upper(values[<<"v", "a", "r", "i", "a", "b", "l", "e">>]),
       values[<<"c", "o", "n", "d", "i", "t", "i", "o", "n">>], Upper(values[<<"s", "e", "v", "e", "r", "i", "t", "y">>]), values[<<"m", "e", "s", "s", "a", "g", "e">>], "custom")

\* (rules, errors) at the end of the loop
LoopResult(entries) ==
  LET kept == SelectSeq(entries, LAMBDA e : e.missing = <<>>)
  IN  [rules |-> [j \in 1..Len(kept) |-> RuleOf(kept[j].values)],
       errors |-> ErrorsUpTo(entries, Len(entries))]

\* validate_rules reports a field as missing when it is blank, and keeps the
\* values of the dict as they are.
validate_rules(custom_rules_list) ==
  LoopResult([idx \in 1..Len(custom_rules_list) |->
                Entry(custom_rules_list[idx],
                      SelectSeq(RULE_COLUMNS, LAMBDA col : Strip(custom_rules_list[idx][col]) = <<>>),
                      <<"R", "u", "l", "e", " ">> \o NatStr(idx))])

\* _rules_from_editor strips the values of a row, passes over a row whose
\* values are all empty, and reports the empty ones of any other row as
\* missing.
_rules_from_editor(df) ==
  LoopResult(SelectSeq([k \in 1..Len(df) |->
                          Entry(RowTexts(df[k]),
                                SelectSeq(RULE_COLUMNS, LAMBDA col : RowTexts(df[k])[col] = <<>>),
                                <<"R", "o", "w", " ">> \o NatStr(k))],
                       LAMBDA e : \E key \in REQUIRED_FIELDS : e.values[key] # <<>>))

\* json.dumps writing every character as it is.
JsonEscape_raw(s) == s

\* json.dumps of a text: the text between quotes, with a backslash before a
\* quote and a backslash, and \t for a tab.
RECURSIVE JsonEscape(_)
JsonEscape(s) ==
  IF s = <<>> THEN <<>>
  ELSE (IF s[1] = "\"" THEN <<"\\", "\"">>
        ELSE IF s[1] = "\\" THEN <<"\\", "\\">>
        ELSE IF s[1] = "\t" THEN <<"\\", "t">>
        ELSE <<s[1]>>) \o JsonEscape(Tail(s))

JsonDumps(s) == <<"\"">> \o JsonEscape(s) \o <<"\"">>

\* json.loads of a JSON string, given what follows its opening quote: the
\* characters up to the closing quote, each escape read as the character it
\* stands for.
RECURSIVE JsonString(_)
JsonString(s) ==
  IF s = <<>> \/ s[1] = "\"" THEN <<>>
  ELSE IF s[1] = "\\" /\ Len(s) >= 2
  THEN <<(IF s[2] = "t" THEN "\t" ELSE s[2])>> \o JsonString(SubSeq(s, 3, Len(s)))
  ELSE <<s[1]>> \o JsonString(Tail(s))

JsonLoads(token) == JsonString(Tail(token))

\* The file save_rules writes: the list of the objects of the rules, each
\* field written by json.dumps and read back as json.loads reads it.
save_rules(rule_list) ==
  Some([k \in 1..Len(rule_list) |->
          Item(StrV(JsonLoads(JsonDumps(rule_list[k].id))),
               StrV(JsonLoads(JsonDumps(rule_list[k].domain))),
               StrV(JsonLoads(JsonDumps(rule_list[k].variable))),
               StrV(JsonLoads(JsonDumps(rule_list[k].condition))),
               StrV(JsonLoads(JsonDumps(rule_list[k].severity))),
               StrV(JsonLoads(JsonDumps(rule_list[k].message))))])

\* load_rules_to_session: the dicts of loaded rules
load_rules_to_session(rule_list) ==
  [k \in 1..Len(rule_list) |->
     RuleDict(rule_list[k].id, rule_list[k].domain, rule_list[k].variable,
              rule_list[k].condition, rule_list[k].severity, rule_list[k].message)]

(***************************************************************************)
(* State                                                                   *)
(***************************************************************************)

VARIABLES
  domain_tables,  \* run_rules: the mapping from domain name to table
  rules,          \* run_rules: the rules, in input order
  i,              \* run_rules: the position of the for loop (the next rule)
  violations,     \* run_rules: the list being built
  origin,         \* history: origin[k] is the position of the rule that
                  \* appended violations[k]
  pc,             \* run_rules: "loop", "returned" or "raised"
  result,         \* run_validation: what the caller receives
  df,             \* build_mask: its table
  condition,      \* build_mask: its condition
  outcome,        \* build_mask: what the call returned or raised
  previous,       \* what the previous call of run_rules on the same inputs
                  \* returned or raised, NoCall if there was none
  core_rules_path,    \* run_validation: the file of the core rules
  custom_rules_path,  \* run_validation and the rule pages: the file of the
                      \* custom rules
  custom_rules_list,  \* st.session_state.custom_rules_list
  ops,                \* the number of operations done on the session list, or
                      \* of annotations added
  last_op,            \* history: the last operation on the session list
  annotations,        \* ViolationManager.annotations
  annotations_file,   \* the file violation_annotations.json
  project_name,       \* the project name the user typed
  project_dir         \* project_path(project_name), once computed

vars ==
  <<domain_tables, rules, i, violations, origin, pc, result, df, condition, outcome,
    previous, core_rules_path, custom_rules_path, custom_rules_list, ops, last_op,
    annotations, annotations_file, project_name, project_dir>>

sessionVars == <<custom_rules_list, ops, last_op>>

annotationVars == <<annotations, annotations_file>>

projectVars == <<project_name, project_dir>>

auxVars == <<sessionVars, annotationVars, projectVars>>

fileVars == <<core_rules_path, custom_rules_path>>

engineVars ==
  <<domain_tables, rules, i, violations, origin, pc, result, previous, fileVars>>

maskVars == <<df, condition, outcome>>

Pending == [kind |-> "pending", mask |-> <<>>, error |-> <<>>]

Running == [kind |-> "running", violations |-> <<>>, order |-> <<>>, error |-> <<>>]

NoCall == [kind |-> "none", violations |-> <<>>, order |-> <<>>, error |-> <<>>]

\* No operation has been done on the session list.
NoOp == [name |-> "none", id |-> <<>>]

\* The rule pages, the violation manager and the project settings are not in
\* use.
AuxIdle ==
  /\ custom_rules_list = <<>>
  /\ ops = 0
  /\ last_op = NoOp
  /\ annotations = <<>>
  /\ annotations_file = None
  /\ project_name = <<>>
  /\ project_dir = <<>>

\* run_rules and run_validation are not in use.
EngineIdle ==
  /\ domain_tables = <<>>
  /\ rules = <<>>
  /\ i = 1
  /\ violations = <<>>
  /\ origin = <<>>
  /\ pc = "idle"
  /\ result = Running
  /\ previous = NoCall
  /\ core_rules_path = None

\* build_mask is not in use.
MaskIdle ==
  /\ df = [columns |-> {}, dtype |-> <<>>, rows |-> <<>>]
  /\ condition = <<>>
  /\ outcome = Pending

(***************************************************************************)
(* run_rules, called by run_validation                                     *)
(***************************************************************************)

\* run_rules is handed its rules directly: no rules file is read.
Init ==
  /\ domain_tables \in TableMaps
  /\ rules \in SeqUpTo(RuleSet, MaxRules)
  /\ i = 1
  /\ violations = <<>>
  /\ origin = <<>>
  /\ pc = "loop"
  /\ result = Running
  /\ df = Frame("object", <<>>)
  /\ condition = <<>>
  /\ outcome = Pending
  /\ previous = NoCall
  /\ AuxIdle
  /\ core_rules_path = None
  /\ custom_rules_path = None

InLoop == pc = "loop" /\ i <= Len(rules)

\* domain = rule.domain.upper(); domain in domain_tables
HasDomain(rule) == Upper(rule.domain) \in DOMAIN domain_tables

\* rule.variable.upper() in df.columns
HasVariable(rule) == Upper(rule.variable) \in domain_tables[Upper(rule.domain)].columns

\* mask = build_mask(df, rule.condition)
RuleMask(rule) == build_mask(domain_tables[Upper(rule.domain)], rule.condition)

Append1(v) ==
  /\ violations' = Append(violations, v)
  /\ origin' = Append(origin, i)

\* if domain not in domain_tables: append, continue
MissingDomain ==
  /\ InLoop
  /\ ~HasDomain(rules[i])
  /\ Append1(_missing_domain_violation(rules[i]))
  /\ i' = i + 1
  /\ UNCHANGED <<domain_tables, rules, pc, result, maskVars, previous, fileVars, auxVars>>

\* if rule.variable.upper() not in df.columns: append, continue
MissingVariable ==
  /\ InLoop
  /\ HasDomain(rules[i])
  /\ ~HasVariable(rules[i])
  /\ Append1(_missing_variable_violation(rules[i]))
  /\ i' = i + 1
  /\ UNCHANGED <<domain_tables, rules, pc, result, maskVars, previous, fileVars, auxVars>>

\* build_mask returns: one Violation per selected row
Evaluate ==
  /\ InLoop
  /\ HasDomain(rules[i])
  /\ HasVariable(rules[i])
  /\ LET mask == RuleMask(rules[i])
         new == RowViolations(rules[i], domain_tables[Upper(rules[i].domain)],
                              mask.mask, 1)
     IN  /\ mask.kind = "mask"
         /\ violations' = violations \o new
         /\ origin' = origin \o [k \in 1..Len(new) |-> i]
  /\ i' = i + 1
  /\ UNCHANGED <<domain_tables, rules, pc, result, maskVars, previous, fileVars, auxVars>>

\* Raise with the exception caught per rule: the rule is skipped.
Raise_swallowed ==
  /\ InLoop
  /\ HasDomain(rules[i])
  /\ HasVariable(rules[i])
  /\ RuleMask(rules[i]).kind # "mask"
  /\ i' = i + 1
  /\ UNCHANGED <<domain_tables, rules, violations, origin, pc, result, maskVars, previous, fileVars, auxVars>>

\* build_mask raises: the exception leaves run_rules and run_validation
Raise ==
  /\ InLoop
  /\ HasDomain(rules[i])
  /\ HasVariable(rules[i])
  /\ LET mask == RuleMask(rules[i])
     IN  /\ mask.kind # "mask"
         /\ result' = [kind |-> mask.kind, violations |-> <<>>, order |-> <<>>,
                       error |-> mask.error]
  /\ pc' = "raised"
  /\ UNCHANGED <<domain_tables, rules, i, violations, origin, maskVars, previous, fileVars, auxVars>>

\* return violations; run_validation returns (violations, order)
Return ==
  /\ pc = "loop"
  /\ i > Len(rules)
  /\ pc' = "returned"
  /\ result' = [kind |-> "returned", violations |-> violations,
                order |-> [k \in 1..Len(rules) |-> rules[k].id], error |-> <<>>]
  /\ UNCHANGED <<domain_tables, rules, i, violations, origin, maskVars, previous, fileVars, auxVars>>

Next == MissingDomain \/ MissingVariable \/ Evaluate \/ Raise \/ Return

Spec == Init /\ [][Next]_vars

(***************************************************************************)
(* run_rules, called a second time on the same tables and rules            *)
(***************************************************************************)

\* A second call whose list of violations is the list of the first call
\* (a list that outlives the call).
RunAgain_retained ==
  /\ pc \in {"returned", "raised"}
  /\ previous = NoCall
  /\ previous' = result
  /\ i' = 1
  /\ pc' = "loop"
  /\ result' = Running
  /\ UNCHANGED <<domain_tables, rules, violations, origin, maskVars, fileVars, auxVars>>

\* The caller keeps what the call gave and calls run_rules again with the same
\* arguments: the call starts with violations = [] and the first rule.
RunAgain ==
  /\ pc \in {"returned", "raised"}
  /\ previous = NoCall
  /\ previous' = result
  /\ i' = 1
  /\ violations' = <<>>
  /\ origin' = <<>>
  /\ pc' = "loop"
  /\ result' = Running
  /\ UNCHANGED <<domain_tables, rules, maskVars, fileVars, auxVars>>

NextRerun == Next \/ RunAgain

SpecRerun == Init /\ [][NextRerun]_vars

(***************************************************************************)
(* run_validation: load_all_rules, then run_rules                          *)
(***************************************************************************)

InitValidation ==
  /\ \E pair \in FilePairs : core_rules_path = pair[1] /\ custom_rules_path = pair[2]
  /\ domain_tables \in ValidationTables
  /\ rules = <<>>
  /\ i = 1
  /\ violations = <<>>
  /\ origin = <<>>
  /\ pc = "load"
  /\ result = Running
  /\ df = Frame("object", <<>>)
  /\ condition = <<>>
  /\ outcome = Pending
  /\ previous = NoCall
  /\ AuxIdle

\* rules, order = load_all_rules(core_rules_path, custom_rules_path)
LoadAllRules ==
  /\ pc = "load"
  /\ LET loaded == load_all_rules(core_rules_path, custom_rules_path)
     IN  /\ loaded.kind = "rules"
         /\ rules' = loaded.rules
  /\ pc' = "loop"
  /\ UNCHANGED <<domain_tables, i, violations, origin, result, maskVars, previous, fileVars, auxVars>>

\* load_rules raises: the exception leaves load_all_rules and run_validation
LoadRaises ==
  /\ pc = "load"
  /\ LET loaded == load_all_rules(core_rules_path, custom_rules_path)
     IN  /\ loaded.kind # "rules"
         /\ result' = [kind |-> loaded.kind, violations |-> <<>>, order |-> <<>>,
                       error |-> loaded.error]
  /\ pc' = "raised"
  /\ UNCHANGED <<domain_tables, rules, i, violations, origin, maskVars, previous, fileVars, auxVars>>

NextValidation == LoadAllRules \/ LoadRaises \/ Next

SpecValidation == InitValidation /\ [][NextValidation]_vars

(***************************************************************************)
(* build_mask, called on its own                                           *)
(***************************************************************************)

InitMask ==
  /\ \E call \in (GrammarFrames \X GrammarConds) \cup (Frames \X ValueConds)
                   \cup ExampleCalls :
       df = call[1] /\ condition = call[2]
  /\ outcome = Pending
  /\ domain_tables = <<>>
  /\ rules = <<>>
  /\ i = 1
  /\ violations = <<>>
  /\ origin = <<>>
  /\ pc = "idle"
  /\ result = Running
  /\ previous = NoCall
  /\ AuxIdle
  /\ core_rules_path = None
  /\ custom_rules_path = None

CallBuildMask ==
  /\ outcome = Pending
  /\ outcome' = build_mask(df, condition)
  /\ UNCHANGED <<df, condition, engineVars, auxVars>>

NextMask == CallBuildMask

SpecMask == InitMask /\ [][NextMask]_vars

(***************************************************************************)
(* The Rule Configuration page: the session list of custom rules, the      *)
(* operations of rule_manager.py on it, and the two places of main.py that *)
(* write the custom rules file (specification SpecRules)                   *)
(***************************************************************************)

\* The number of operations that change the session list in one session.
MaxOps == 2

\* Two of the templates of rule_templates.py.
Template(id, domain, variable, cond, severity, message) ==
  [id |-> id, domain |-> domain, variable |-> variable, condition |-> cond,
   severity |-> severity, message |-> message]

Templates ==
  { Template(<<"D", "M", "0", "0", "1">>, <<"D", "M">>, <<"U", "S", "U", "B", "J", "I", "D">>, <<"U", "S", "U", "B", "J", "I", "D", " ", "i", "s", " ", "m", "i", "s", "s", "i", "n", "g">>, <<"E", "R", "R", "O", "R">>,
             <<"S", "u", "b", "j", "e", "c", "t", " ", "u", "n", "i", "q", "u", "e", " ", "i", "d", "e", "n", "t", "i", "f", "i", "e", "r", " ", "i", "s", " ", "r", "e", "q", "u", "i", "r", "e", "d">>),
    Template(<<"A", "E", "0", "0", "1">>, <<"A", "E">>, <<"A", "E", "S", "E", "V">>, <<"A", "E", "S", "E", "V", " ", "i", "n", " ", "{", "'", "S", "E", "V", "E", "R", "E", "'", "}">>, <<"W", "A", "R", "N", "I", "N", "G">>,
             <<"S", "e", "v", "e", "r", "e", " ", "a", "d", "v", "e", "r", "s", "e", " ", "e", "v", "e", "n", "t", " ", "r", "e", "p", "o", "r", "t", "e", "d", " ", "-", " ", "r", "e", "q", "u", "i", "r", "e", "s", " ", "m", "e", "d", "i", "c", "a", "l", " ", "r", "e", "v", "i", "e", "w">>) }

\* What the user types in the rule builder: the id box (left empty with
\* "auto id"), the domain, the variable, the condition, the severity and the
\* message.
BuilderInputs ==
  { RuleDict(<<>>, <<"d", "m">>, <<"a", "g", "e">>, <<"A", "G", "E", " ", ">", " ", "1", "2", "0">>, <<"e", "r", "r", "o", "r">>, <<"T", "o", "o", " ", "o", "l", "d">>),
    RuleDict(<<" ", "D", "M", "0", "0", "1", " ">>, <<"A", "E", " ">>, <<"a", "e", "s", "e", "v">>, <<"A", "E", "S", "E", "V", " ", "i", "s", " ", "m", "i", "s", "s", "i", "n", "g">>, <<"w", "a", "r", "n", "i", "n", "g">>, <<"N", "o", " ", "\"", "g", "r", "a", "d", "e", "\"">>),
    RuleDict(<<>>, <<"d", "m">>, <<"a", "g", "e">>, <<"A", "G", "E", " ", ">", " ", "1", "2", "0">>, <<"e", "r", "r", "o", "r">>, <<" ">>) }

\* The cells the user can type in the table of rules: a cleared cell, a blank
\* one, an id another rule may have, a domain in lower case.
EditValues == {Null, StrV(<<" ">>), StrV(<<"D", "M", "0", "0", "1">>), StrV(<<"a", "e">>)}

EditColumns == {<<"i", "d">>, <<"d", "o", "m", "a", "i", "n">>}

\* A CSV file read by pd.read_csv: its columns and its rows.
Csv(columns, rows) == [columns |-> columns, rows |-> rows]

CsvRow(id, domain, variable, cond, severity, message) ==
  [key \in REQUIRED_FIELDS |-> RuleDict(id, domain, variable, cond, severity, message)[key]]

\* A file of two rules with the same id and a lower-case domain, a file of
\* MAX_RULES_PER_DOMAIN rules of the domain DM, and a file without the column
\* message.
CsvFiles ==
  { Csv(REQUIRED_FIELDS,
        << CsvRow(StrV(<<"X", "1">>), StrV(<<"d", "m">>), StrV(<<"s", "e", "x">>), StrV(<<"S", "E", "X", " ", "i", "s", " ", "m", "i", "s", "s", "i", "n", "g">>), StrV(<<"e", "r", "r", "o", "r">>), StrV(<<"N", "o", " ", "s", "e", "x">>)),
           CsvRow(StrV(<<"X", "1", " ">>), StrV(<<"d", "m">>), StrV(<<"a", "g", "e">>), StrV(<<"A", "G", "E", " ", "i", "s", " ", "m", "i", "s", "s", "i", "n", "g">>), StrV(<<"e", "r", "r", "o", "r">>), Null) >>),
    Csv(REQUIRED_FIELDS,
        [k \in 1..MAX_RULES_PER_DOMAIN |->
           CsvRow(StrV(<<"B">> \o Pad3(k)), StrV(<<"D", "M">>), StrV(<<"A", "G", "E">>), StrV(<<"A", "G", "E", " ", ">", " ">> \o NatStr(100 + k)),
                  StrV(<<"E", "R", "R", "O", "R">>), StrV(<<"T", "o", "o", " ", "o", "l", "d">>))]),
    Csv(REQUIRED_FIELDS \ {<<"m", "e", "s", "s", "a", "g", "e">>},
        << [key \in REQUIRED_FIELDS \ {<<"m", "e", "s", "s", "a", "g", "e">>} |-> StrV(<<"D", "M", "9">>)] >>) }

\* What import_rules_from_csv returns, with the session list it leaves.
import_rules_from_csv(uploaded_file, list) ==
  LET missing_cols == SelectSeq(RULE_COLUMNS, LAMBDA col : col \notin uploaded_file.columns)
  IN  IF missing_cols # <<>>
      THEN [imported |-> 0,
            errors |-> <<<<"M", "i", "s", "s", "i", "n", "g", " ", "c", "o", "l", "u", "m", "n", "s", ":", " ">> \o Join(missing_cols, <<",", " ">>)>>,
            list |-> list]
      ELSE [imported |-> Len(uploaded_file.rows),
            errors |-> <<>>,
            list |-> list \o [k \in 1..Len(uploaded_file.rows) |->
                                [key \in REQUIRED_FIELDS |-> Strip(Str(uploaded_file.rows[k][key]))]]]

\* clear_all_rules
clear_all_rules == <<>>

\* The session starts with no rule in the list and no custom rules file.
InitRules ==
  /\ EngineIdle
  /\ MaskIdle
  /\ custom_rules_path = None
  /\ custom_rules_list = <<>>
  /\ ops = 0
  /\ last_op = NoOp
  /\ annotations = <<>>
  /\ annotations_file = None
  /\ project_name = <<>>
  /\ project_dir = <<>>

RulesFrame ==
  <<domain_tables, rules, i, violations, origin, pc, result, previous, core_rules_path,
    maskVars, annotationVars, projectVars>>

\* The first visit of the page: the saved rules, if any, become the session
\* list.
LoadSession ==
  LET existing_rules == load_rules(custom_rules_path, "custom")
  IN  /\ custom_rules_list = <<>>
      /\ existing_rules.kind = "rules"
      /\ existing_rules.rules # <<>>
      /\ custom_rules_list' = load_rules_to_session(existing_rules.rules)
      /\ last_op' = [name |-> "load_rules_to_session", id |-> <<>>]
      /\ UNCHANGED <<ops, custom_rules_path, RulesFrame>>

\* A "quick add" button of a template.
AddTemplate ==
  \E template \in Templates :
    /\ ops < MaxOps
    /\ custom_rules_list' = add_rule_from_template(template, custom_rules_list)
    /\ ops' = ops + 1
    /\ last_op' = [name |-> "add_rule_from_template", id |-> template.id]
    /\ UNCHANGED <<custom_rules_path, RulesFrame>>

\* The submit button of the rule builder: the page refuses a blank domain,
\* variable, condition or message, and a blank id unless "auto id" is ticked
\* (the id is then handed over empty).
BuilderSubmit ==
  \E fields \in BuilderInputs :
    /\ ops < MaxOps
    /\ Strip(fields[<<"d", "o", "m", "a", "i", "n">>]) # <<>>
    /\ Strip(fields[<<"v", "a", "r", "i", "a", "b", "l", "e">>]) # <<>>
    /\ Strip(fields[<<"c", "o", "n", "d", "i", "t", "i", "o", "n">>]) # <<>>
    /\ Strip(fields[<<"m", "e", "s", "s", "a", "g", "e">>]) # <<>>
    /\ custom_rules_list' = add_rule_from_fields(fields, custom_rules_list).list
    /\ ops' = ops + 1
    /\ last_op' = [name |-> "add_rule_from_fields", id |-> fields[<<"i", "d">>]]
    /\ UNCHANGED <<custom_rules_path, RulesFrame>>

\* The user edits a cell of the last row of the table, or empties the row;
\* the page then calls update_rules_from_dataframe with the edited table.
EditTable ==
  /\ ops < MaxOps
  /\ custom_rules_list # <<>>
  /\ LET rules_df == get_rules_dataframe(custom_rules_list)
         last == Len(rules_df)
     IN  \E edited \in { [rules_df EXCEPT ![last][col] = v] : col \in EditColumns, v \in EditValues }
                       \cup { [rules_df EXCEPT ![last] = [key \in REQUIRED_FIELDS |-> Null]] } :
           custom_rules_list' = update_rules_from_dataframe(edited)
  /\ ops' = ops + 1
  /\ last_op' = [name |-> "update_rules_from_dataframe", id |-> <<>>]
  /\ UNCHANGED <<custom_rules_path, RulesFrame>>

\* The user uploads a CSV file.
ImportCsv ==
  \E uploaded_file \in CsvFiles :
    /\ ops < MaxOps
    /\ custom_rules_list' = import_rules_from_csv(uploaded_file, custom_rules_list).list
    /\ ops' = ops + 1
    /\ last_op' = [name |-> "import_rules_from_csv", id |-> <<>>]
    /\ UNCHANGED <<custom_rules_path, RulesFrame>>

\* The "Clear All" button, disabled when there is no rule.
ClearAll ==
  /\ ops < MaxOps
  /\ Len(custom_rules_list) > 0
  /\ custom_rules_list' = clear_all_rules
  /\ ops' = ops + 1
  /\ last_op' = [name |-> "clear_all_rules", id |-> <<>>]
  /\ UNCHANGED <<custom_rules_path, RulesFrame>>

\* The save button that writes whatever validate_rules returns.
SaveClicked_unchecked ==
  /\ custom_rules_path' = save_rules(validate_rules(custom_rules_list).rules)
  /\ last_op' = [name |-> "save", id |-> <<>>]
  /\ UNCHANGED <<custom_rules_list, ops, RulesFrame>>

\* The save button: the rules are written when validate_rules has no error.
SaveClicked ==
  LET validated == validate_rules(custom_rules_list)
  IN  /\ custom_rules_path' = IF validated.errors # <<>> THEN custom_rules_path
                              ELSE save_rules(validated.rules)
      /\ last_op' = [name |-> "save", id |-> <<>>]
      /\ UNCHANGED <<custom_rules_list, ops, RulesFrame>>

\* The run button with custom rules applied: the rules read back from the
\* table are written when _rules_from_editor has no error; with an error the
\* page stops.
RunClicked ==
  LET edited == _rules_from_editor(get_rules_dataframe(custom_rules_list))
  IN  /\ custom_rules_path' = IF edited.errors # <<>> THEN custom_rules_path
                              ELSE save_rules(edited.rules)
      /\ last_op' = [name |-> "run", id |-> <<>>]
      /\ UNCHANGED <<custom_rules_list, ops, RulesFrame>>

NextRules ==
  \/ LoadSession
  \/ AddTemplate
  \/ BuilderSubmit
  \/ EditTable
  \/ ImportCsv
  \/ ClearAll
  \/ SaveClicked
  \/ RunClicked

SpecRules == InitRules /\ [][NextRules]_vars


(***************************************************************************)
(* Properties of run_rules (checked under Spec)                            *)
(***************************************************************************)

\* The rules the loop has gone through.
Processed == 1..(i - 1)

\* The positions in violations of the violations of the rule at position r.
OfRule(r) == {k \in 1..Len(violations) : origin[k] = r}

DomainLoaded(r) == Upper(rules[r].domain) \in DOMAIN domain_tables

TableOf(r) == domain_tables[Upper(rules[r].domain)]

VariablePresent(r) == Upper(rules[r].variable) \in TableOf(r).columns

\* The condition, stripped, matches none of the six patterns.
NoFormMatches(cond) ==
  LET text == Strip(cond)
  IN  /\ ~Match(_MISSING_PATTERN, text).ok
      /\ ~Match(_NOT_MISSING_PATTERN, text).ok
      /\ ~Match(_IN_PATTERN, text).ok
      /\ ~Match(_NOT_IN_PATTERN, text).ok
      /\ ~Match(_BETWEEN_PATTERN, text).ok
      /\ ~Match(_OP_PATTERN, text).ok

\* What run_rules returns is the list it built.
ReturnsItsList == pc = "returned" => result.violations = violations

\* C1: every rule whose uppercased domain is not loaded gets exactly one
\* Violation, with row_index, record_key and value None and the message
\* "Domain <domain> not found" (<domain> the rule's domain field), and the run
\* never raises at such a rule, whatever its condition.
C1_MissingDomain ==
  /\ \A r \in Processed :
       ~DomainLoaded(r) =>
         /\ Cardinality(OfRule(r)) = 1
         /\ \A k \in OfRule(r) :
              /\ violations[k].row_index = None
              /\ violations[k].record_key = None
              /\ violations[k].value = None
              /\ violations[k].message = <<"D", "o", "m", "a", "i", "n", " ">> \o rules[r].domain \o <<" ", "n", "o", "t", " ", "f", "o", "u", "n", "d">>
  /\ ReturnsItsList
  /\ pc = "raised" => DomainLoaded(i)

\* A run has returned that had the table DM and a rule of the unloaded domain
\* AE, whose condition has no grammar form.
C1_Witness ==
  /\ pc = "returned"
  /\ DM \in DOMAIN domain_tables
  /\ \E r \in 1..Len(rules) :
       /\ ~DomainLoaded(r)
       /\ NoFormMatches(rules[r].condition)
       /\ \E k \in 1..Len(result.violations) : result.violations[k].rule_id = rules[r].id

\* C2: every rule whose table is loaded but lacks the rule's uppercased
\* variable gets exactly one Violation, with row_index None and the message
\* "Variable <variable> not found in <domain>", and the run never raises at
\* such a rule.
C2_MissingVariable ==
  /\ \A r \in Processed :
       (DomainLoaded(r) /\ ~VariablePresent(r)) =>
         /\ Cardinality(OfRule(r)) = 1
         /\ \A k \in OfRule(r) :
              /\ violations[k].row_index = None
              /\ violations[k].message =
                   <<"V", "a", "r", "i", "a", "b", "l", "e", " ">> \o rules[r].variable \o <<" ", "n", "o", "t", " ", "f", "o", "u", "n", "d", " ", "i", "n", " ">> \o rules[r].domain
  /\ ReturnsItsList
  /\ pc = "raised" => (DomainLoaded(i) /\ VariablePresent(i))

\* A run has returned whose table DM lacked the variable of one of its rules,
\* a rule whose condition has no grammar form.
C2_Witness ==
  /\ pc = "returned"
  /\ \E r \in 1..Len(rules) :
       /\ DomainLoaded(r)
       /\ ~VariablePresent(r)
       /\ NoFormMatches(rules[r].condition)
       /\ Cardinality(OfRule(r)) = 1

\* C3 (as claimed): the engine never fails for a column that is not in the
\* table: a run does not end in a KeyError.
C3_NoColumnNotFoundError == result.kind # "KeyError"

\* C4: in the returned list, of two violations the earlier one belongs to an
\* earlier rule, or to the same rule and a smaller row_index.
C4_Ordered ==
  pc = "returned" =>
    /\ Len(origin) = Len(result.violations)
    /\ \A a, b \in 1..Len(result.violations) :
         a < b =>
           \/ origin[a] < origin[b]
           \/ /\ origin[a] = origin[b]
              /\ result.violations[a].row_index # None
              /\ result.violations[b].row_index # None
              /\ result.violations[a].row_index[1] < result.violations[b].row_index[1]

\* A run has returned two violations of one rule and one of another.
C4_Witness ==
  /\ pc = "returned"
  /\ \E a, b \in 1..Len(result.violations) : a < b /\ origin[a] = origin[b]
  /\ \E a, b \in 1..Len(result.violations) : a < b /\ origin[a] # origin[b]

\* C5: a rule whose domain and variable exist and whose condition yields a
\* mask gets one Violation for each row the mask selects and none for the
\* others; each has the row's 1-based position as row_index, the rule's
\* message, and the rule's id, source, domain, variable, severity, condition.
C5_OnePerSelectedRow ==
  /\ \A r \in Processed :
       (DomainLoaded(r) /\ VariablePresent(r)) =>
         LET got == build_mask(TableOf(r), rules[r].condition)
         IN  got.kind = "mask" =>
               /\ \A row \in 1..Len(TableOf(r).rows) :
                    Cardinality({k \in OfRule(r) : violations[k].row_index = Some(row)})
                      = IF got.mask[row] THEN 1 ELSE 0
               /\ \A k \in OfRule(r) :
                    /\ violations[k].row_index \in {Some(row) : row \in 1..Len(TableOf(r).rows)}
                    /\ violations[k].message = rules[r].message
                    /\ violations[k].rule_id = rules[r].id
                    /\ violations[k].source = rules[r].source
                    /\ violations[k].domain = rules[r].domain
                    /\ violations[k].variable = rules[r].variable
                    /\ violations[k].severity = rules[r].severity
                    /\ violations[k].condition = rules[r].condition
  /\ ReturnsItsList

\* A run has returned in which a rule selected the second of two rows and not
\* the first.
C5_Witness ==
  /\ pc = "returned"
  /\ \E r \in 1..Len(rules) :
       /\ DomainLoaded(r)
       /\ Len(TableOf(r).rows) = 2
       /\ Cardinality(OfRule(r)) = 1
       /\ \A k \in OfRule(r) : result.violations[k].row_index = Some(2)

\* C6: a rule whose domain and variable exist and whose condition has none of
\* the six forms is never passed: the run ends there with the ValueError that
\* names the condition, the caller receives no violation and no rule order,
\* and no further rule is evaluated.
C6_ParseErrorFailsRun ==
  /\ \A r \in Processed :
       ~(DomainLoaded(r) /\ VariablePresent(r) /\ NoFormMatches(rules[r].condition))
  /\ (pc = "raised" /\ NoFormMatches(rules[i].condition)) =>
       /\ result.kind = "ValueError"
       /\ result.error = <<"U", "n", "s", "u", "p", "p", "o", "r", "t", "e", "d", " ", "c", "o", "n", "d", "i", "t", "i", "o", "n", ":", " ">> \o rules[i].condition
       /\ result.violations = <<>>
       /\ result.order = <<>>
  /\ pc = "raised" => ~ENABLED Next

\* A run has failed on an unparsable condition after an earlier rule had
\* added a violation to the list.
C6_Witness ==
  /\ pc = "raised"
  /\ result.kind = "ValueError"
  /\ Len(violations) > 0


(***************************************************************************)
(* Properties of build_mask (checked under SpecMask)                       *)
(***************************************************************************)

\* needle occurs in text
Occurs(needle, text) ==
  \E o \in 0..(Len(text) - Len(needle)) : SubSeq(text, o + 1, o + Len(needle)) = needle

\* C7: build_mask raises its ValueError exactly when the stripped condition
\* matches none of the six forms, and the message of the error contains the
\* condition as it was given.
C7_ParseErrorExactly ==
  outcome # Pending =>
    /\ (outcome.kind = "ValueError") <=> NoFormMatches(condition)
    /\ outcome.kind = "ValueError" => Occurs(condition, outcome.error)

\* build_mask has raised its ValueError for a condition padded with white
\* space.
C7_Witness ==
  /\ outcome.kind = "ValueError"
  /\ condition # Strip(condition)

\* The stripped condition matches the comparison pattern and its value group
\* begins with an operator character (as in "AGE >> 5").
MalformedComparison(cond) ==
  LET text == Strip(cond)
      m == Match(_OP_PATTERN, text)
  IN  m.ok /\ Group(m, 5, text)[1] \in {"=", "!", ">", "<"}

\* C8 (as claimed): a comparison on a column of the table whose operator is
\* followed by another operator character is rejected with the parse error
\* and yields no mask.
C8_MalformedComparisonRejected ==
  (outcome # Pending /\ MalformedComparison(condition)
     /\ Upper(Group(Match(_OP_PATTERN, Strip(condition)), 1, Strip(condition))) \in df.columns)
    => outcome.kind = "ValueError"

\* The cell is text that is empty once its white space is trimmed.
BlankText(v) == v.t = "str" /\ \A k \in 1..Len(v.s) : v.s[k] \in {" ", "\t"}

\* The cell is missing: null, or blank text in a text column.
ExpectMissing(v, dtype) == v.t = "null" \/ (dtype = "object" /\ BlankText(v))

\* C9: "<col> is missing" selects exactly the rows that are null or, in a
\* text column, blank; in a numeric column exactly the null rows; and
\* "<col> not missing" selects exactly the other rows.
C9_MissingSemantics ==
  outcome.kind = "mask" =>
    LET text == Strip(condition)
        col == Column(df, AGE)
    IN  /\ Match(_MISSING_PATTERN, text).ok =>
             /\ Len(outcome.mask) = Len(col.vals)
             /\ \A k \in 1..Len(col.vals) :
                  outcome.mask[k] = ExpectMissing(col.vals[k], col.dtype)
        /\ Match(_NOT_MISSING_PATTERN, text).ok =>
             /\ Len(outcome.mask) = Len(col.vals)
             /\ \A k \in 1..Len(col.vals) :
                  outcome.mask[k] = ~ExpectMissing(col.vals[k], col.dtype)

\* "AGE is missing" has selected a blank text and not the number beside it.
C9_Witness ==
  /\ condition = <<"A", "G", "E", " ", "i", "s", " ", "m", "i", "s", "s", "i", "n", "g">>
  /\ df = Frame("object", <<StrV(<<" ">>), IntV(5)>>)
  /\ outcome.kind = "mask"
  /\ outcome.mask = <<TRUE, FALSE>>

\* C10 (as claimed, for a numeric literal): a comparison with a number never
\* selects a row whose value is null or does not convert to a number.
C10_MissingNeverSelected ==
  (outcome.kind = "mask" /\ Match(_OP_PATTERN, Strip(condition)).ok) =>
    LET text == Strip(condition)
        value == _parse_value(Group(Match(_OP_PATTERN, text), 5, text))
        col == Column(df, AGE)
    IN  IsNumber(value) =>
          \A k \in 1..Len(col.vals) : IsNa(ToNumeric(col.vals[k])) => ~outcome.mask[k]

\* The four ordering operators.
OrderingOps == {<<">">>, <<">", "=">>, <<"<">>, <<"<", "=">>}

\* x <op> y for two numbers x and y and an ordering operator
Ordered(op, x, y) ==
  IF op = <<">">> THEN x.n * y.d > y.n * x.d
  ELSE IF op = <<">", "=">> THEN x.n * y.d >= y.n * x.d
  ELSE IF op = <<"<">> THEN x.n * y.d < y.n * x.d
  ELSE x.n * y.d <= y.n * x.d

\* The cell is a number, or a text that reads as a number.
ConvertsToNumber(v) == v.t \in {"int", "float"} \/ (v.t = "str" /\ IsNumericToken(v.s))

\* The number a cell that converts to a number converts to.
NumberOf(v) == IF v.t = "str" THEN NumericValue(v.s) ELSE v

\* C11: an ordering comparison (>, >=, <, <=) of an existing column with a
\* numeric literal does not raise and selects exactly the rows whose value
\* converts to a number that satisfies the comparison; null rows and rows of
\* non-numeric text are not selected.
C11_NumericOrdering ==
  outcome # Pending =>
    LET text == Strip(condition)
        m == Match(_OP_PATTERN, text)
        name == Upper(Group(m, 1, text))
        op == Group(m, 3, text)
        value == _parse_value(Group(m, 5, text))
    IN  (m.ok /\ op \in OrderingOps /\ IsNumber(value) /\ name \in df.columns) =>
          /\ outcome.kind = "mask"
          /\ Len(outcome.mask) = Len(df.rows)
          /\ \A k \in 1..Len(df.rows) :
               outcome.mask[k] =
                 /\ ConvertsToNumber(df.rows[k][name])
                 /\ Ordered(op, NumberOf(df.rows[k][name]), value)

\* "AGE > 120" over the column [150, "oops", null, 100] has selected the first
\* row alone.
C11_Witness ==
  /\ condition = <<"A", "G", "E", " ", ">", " ", "1", "2", "0">>
  /\ df = FrameOf(AGE, "object", <<IntV(150), StrV(<<"o", "o", "p", "s">>), Null, IntV(100)>>)
  /\ outcome.kind = "mask"
  /\ outcome.mask = <<TRUE, FALSE, FALSE, FALSE>>

\* C12 (as claimed): "<col> not in {...}" on an existing column never selects
\* a row whose value is null.
C12_NotInSkipsMissing ==
  outcome.kind = "mask" =>
    LET text == Strip(condition)
        m == Match(_NOT_IN_PATTERN, text)
        name == Upper(Group(m, 1, text))
    IN  m.ok =>
          \A k \in 1..Len(df.rows) : IsNa(df.rows[k][name]) => ~outcome.mask[k]

\* C13 (as claimed): "<col> in {...}" on an existing column never selects a
\* row whose value is null, whatever the literals.
C13_MissingNotMember ==
  outcome.kind = "mask" =>
    LET text == Strip(condition)
        m == Match(_IN_PATTERN, text)
        name == Upper(Group(m, 1, text))
    IN  m.ok =>
          \A k \in 1..Len(df.rows) : IsNa(df.rows[k][name]) => ~outcome.mask[k]

\* The condition "<col> in {<values>}" for the column and the values of a
\* condition that matches the "not in" pattern.
InOf(cond) ==
  LET text == Strip(cond)
      m == Match(_NOT_IN_PATTERN, text)
  IN  Group(m, 1, text) \o <<" ", "i", "n", " ", "{">> \o Group(m, 8, text) \o <<"}">>

\* C14: on an existing column the mask of "<col> not in {S}" is the row-wise
\* negation of the mask of "<col> in {S}" for the same column and the same
\* literals.
C14_NotInNegatesIn ==
  outcome # Pending =>
    LET text == Strip(condition)
        m == Match(_NOT_IN_PATTERN, text)
    IN  (m.ok /\ Upper(Group(m, 1, text)) \in df.columns) =>
          LET in == build_mask(df, InOf(condition))
          IN  /\ Match(_IN_PATTERN, InOf(condition)).ok
              /\ in.kind = "mask"
              /\ outcome.kind = "mask"
              /\ Len(outcome.mask) = Len(df.rows)
              /\ \A k \in 1..Len(df.rows) : outcome.mask[k] = ~in.mask[k]

\* "AGE not in {5, 150}" over the text "5" and the text "oops" has selected the
\* second row alone.
C14_Witness ==
  /\ condition = <<"A", "G", "E", " ", "n", "o", "t", " ", "i", "n", " ", "{", "5", ",", " ", "1", "5", "0", "}">>
  /\ df = Frame("object", <<StrV(<<"5">>), StrV(<<"o", "o", "p", "s">>)>>)
  /\ outcome.kind = "mask"
  /\ outcome.mask = <<FALSE, TRUE>>

\* C15: "<col> between low and high" with two numeric bounds, on an existing
\* column, selects exactly the rows whose value converts to a number v with
\* low <= v <= high, both ends included; null rows and rows of non-numeric
\* text are not selected, and no row is when low > high.
C15_BetweenInclusive ==
  outcome # Pending =>
    LET text == Strip(condition)
        m == Match(_BETWEEN_PATTERN, text)
        name == Upper(Group(m, 1, text))
        low == _parse_value(Group(m, 5, text))
        high == _parse_value(Group(m, 9, text))
    IN  (m.ok /\ IsNumber(low) /\ IsNumber(high) /\ name \in df.columns) =>
          /\ outcome.kind = "mask"
          /\ Len(outcome.mask) = Len(df.rows)
          /\ \A k \in 1..Len(df.rows) :
               outcome.mask[k] =
                 /\ ConvertsToNumber(df.rows[k][name])
                 /\ Ordered(<<"<", "=">>, low, NumberOf(df.rows[k][name]))
                 /\ Ordered(<<"<", "=">>, NumberOf(df.rows[k][name]), high)
          /\ Ordered(<<">">>, low, high) => \A k \in 1..Len(df.rows) : ~outcome.mask[k]

\* "AGE between 5 and 150" has selected both the value 5 and the value 150.
C15_Witness ==
  /\ condition = <<"A", "G", "E", " ", "b", "e", "t", "w", "e", "e", "n", " ", "5", " ", "a", "n", "d", " ", "1", "5", "0">>
  /\ df = Frame("object", <<IntV(5), IntV(150)>>)
  /\ outcome.kind = "mask"
  /\ outcome.mask = <<TRUE, TRUE>>

\* The rows of a column have been tested against bounds given in reverse
\* order.
C15_WitnessReversed ==
  /\ condition = <<"A", "G", "E", " ", "b", "e", "t", "w", "e", "e", "n", " ", "1", "5", "0", " ", "a", "n", "d", " ", "5">>
  /\ df = Frame("object", <<IntV(5), IntV(150)>>)
  /\ outcome.kind = "mask"
  /\ outcome.mask = <<FALSE, FALSE>>

\* The column token of the first of the six patterns the stripped condition
\* matches, in the order build_mask tries them.
FormColumn(cond) ==
  LET text == Strip(cond)
      mMissing    == Match(_MISSING_PATTERN, text)
      mNotMissing == Match(_NOT_MISSING_PATTERN, text)
      mIn         == Match(_IN_PATTERN, text)
      mNotIn      == Match(_NOT_IN_PATTERN, text)
      mBetween    == Match(_BETWEEN_PATTERN, text)
      mOp         == Match(_OP_PATTERN, text)
  IN  IF mMissing.ok THEN Group(mMissing, 1, text)
      ELSE IF mNotMissing.ok THEN Group(mNotMissing, 1, text)
      ELSE IF mIn.ok THEN Group(mIn, 1, text)
      ELSE IF mNotIn.ok THEN Group(mNotIn, 1, text)
      ELSE IF mBetween.ok THEN Group(mBetween, 1, text)
      ELSE Group(mOp, 1, text)

\* C16 (as claimed): a condition that has one of the six forms, evaluated on
\* a column the table has, never raises: the call yields a mask.
C16_EvaluationNeverRaises ==
  (outcome # Pending /\ ~NoFormMatches(condition)
     /\ Upper(FormColumn(condition)) \in df.columns)
    => outcome.kind = "mask"

(***************************************************************************)
(* Properties of the violations of selected rows (checked under Spec)      *)
(***************************************************************************)

\* The violations that stand for a row of a table.
RowViolationsAt == {k \in 1..Len(violations) : violations[k].row_index # None}

\* The row of the table a violation stands for.
RowOf(k) == TableOf(origin[k]).rows[violations[k].row_index[1]]

\* The keys of a row that are present and hold a value that is not missing:
\* not null and, in a text column, not blank.
PresentKeys(k) ==
  {j \in 1..Len(RecordKeys) :
     /\ RecordKeys[j] \in TableOf(origin[k]).columns
     /\ ~ExpectMissing(RowOf(k)[RecordKeys[j]], TableOf(origin[k]).dtype[RecordKeys[j]])}

\* C17 (as claimed): the record_key of the violation of a row is the text of
\* the first of USUBJID, SUBJID, STUDYID that the row has with a value that is
\* not missing (not null, not blank text), and null if there is none.
C17_RecordKeyFirstNonMissing ==
  \A k \in RowViolationsAt :
    violations[k].record_key =
      IF PresentKeys(k) = {} THEN None
      ELSE Some(Str(RowOf(k)[RecordKeys[Min(PresentKeys(k))]]))

\* C18 (as claimed): the value of the violation of a row is the text of the
\* row's value at the rule's variable, and null when that value is missing
\* (null, or blank text in a text column).
C18_ValueNullWhenMissing ==
  \A k \in RowViolationsAt :
    LET name == Upper(rules[origin[k]].variable)
        cell == RowOf(k)[name]
    IN  violations[k].value =
          IF ExpectMissing(cell, TableOf(origin[k]).dtype[name]) THEN None
          ELSE Some(Str(cell))

(***************************************************************************)
(* Properties of repeated runs (checked under SpecRerun)                   *)
(***************************************************************************)

C19_WitnessRaised ==
  /\ pc = "raised"
  /\ previous # NoCall
  /\ Len(violations) >= 1

(***************************************************************************)
(* Properties of run_validation (checked under SpecValidation)             *)
(***************************************************************************)

\* The objects of a rules file, none if the file is absent.
ItemsOf(path) == IF path = None THEN <<>> ELSE path[1]

\* The objects of the core file followed by those of the custom file.
AllItems == ItemsOf(core_rules_path) \o ItemsOf(custom_rules_path)

\* C20: run_validation returns the violations of the run with the rule order:
\* the ids of the rules of the core file in file order, then those of the
\* custom file in file order, one for each rule whether or not it has a
\* violation; with both files absent or empty the run does not fail and
\* returns no violation and an empty rule order.
C20_RuleOrder ==
  /\ pc = "returned" =>
       /\ result.violations = violations
       /\ Len(result.order) = Len(ItemsOf(core_rules_path)) + Len(ItemsOf(custom_rules_path))
       /\ \A k \in 1..Len(AllItems) :
            result.order[k] = Strip(PyStr(AllItems[k][<<"i", "d">>]))
       /\ \A k \in 1..Len(rules) :
            rules[k].source =
              IF k <= Len(ItemsOf(core_rules_path)) THEN "core" ELSE "custom"
  /\ AllItems = <<>> =>
       /\ pc # "raised"
       /\ pc = "load" => ENABLED LoadAllRules
       /\ pc = "loop" => ENABLED Return
       /\ pc = "returned" => (result.violations = <<>> /\ result.order = <<>>)

\* A run has returned with a core rule and a custom rule of different ids, of
\* which one has a violation and the other has none.
C20_Witness ==
  /\ pc = "returned"
  /\ Len(ItemsOf(core_rules_path)) = 1
  /\ Len(ItemsOf(custom_rules_path)) = 1
  /\ result.order[1] # result.order[2]
  /\ \E r, q \in 1..2 : OfRule(r) = {} /\ OfRule(q) # {}

\* A run has returned with both rules files absent.
C20_WitnessAbsent ==
  /\ pc = "returned"
  /\ core_rules_path = None
  /\ custom_rules_path = None
  /\ result.violations = <<>>
  /\ result.order = <<>>

\* The positions in a list of objects of those that lack a required field.
Offending(data) == {k \in 1..Len(data) : ~(REQUIRED_FIELDS \subseteq DOMAIN data[k])}

\* The names of the required fields in alphabetical order, as Python writes
\* them in a list.
FieldNames ==
  <<<<"'", "c", "o", "n", "d", "i", "t", "i", "o", "n", "'">>, <<"'", "d", "o", "m", "a", "i", "n", "'">>, <<"'", "i", "d", "'">>, <<"'", "m", "e", "s", "s", "a", "g", "e", "'">>, <<"'", "s", "e", "v", "e", "r", "i", "t", "y", "'">>, <<"'", "v", "a", "r", "i", "a", "b", "l", "e", "'">>>>

\* The fields of the list above an object lacks, separated by ", ".
RECURSIVE MissingNames(_, _)
MissingNames(item, k) ==
  IF k > Len(FieldNames) THEN <<>>
  ELSE LET name == SubSeq(FieldNames[k], 2, Len(FieldNames[k]) - 1)
           rest == MissingNames(item, k + 1)
       IN  IF name \in DOMAIN item THEN rest
           ELSE FieldNames[k] \o (IF rest = <<>> THEN <<>> ELSE <<",", " ">> \o rest)

\* The error of a file whose first offending object is at position k.
MissingFieldsError(data, k) ==
  <<"R", "u", "l", "e", " ", "a", "t", " ", "i", "n", "d", "e", "x", " ">> \o NatStr(k - 1) \o <<" ", "m", "i", "s", "s", "i", "n", "g", " ", "f", "i", "e", "l", "d", "s", ":", " ", "[">>
    \o MissingNames(data[k], 1) \o <<"]">>

\* C21: a rules file with an object that lacks a required field loads as a
\* whole as the ValueError that names the index of the first such object and
\* the sorted list of the fields it lacks, and gives no Rule, not even for
\* the objects before that one; run_validation then ends with that error and
\* no rule.  A file whose objects are all complete gives one Rule per object.
C21_LoadAllOrNothing ==
  /\ \A file \in {core_rules_path, custom_rules_path} :
       LET data == ItemsOf(file)
           got == load_rules(file, "custom")
       IN  IF Offending(data) # {}
           THEN /\ got.kind = "ValueError"
                /\ got.rules = <<>>
                /\ got.error = MissingFieldsError(data, Min(Offending(data)))
           ELSE /\ got.kind = "rules"
                /\ Len(got.rules) = Len(data)
  /\ pc # "load" =>
       IF Offending(ItemsOf(core_rules_path)) # {}
       THEN /\ pc = "raised"
            /\ rules = <<>>
            /\ result.error = MissingFieldsError(ItemsOf(core_rules_path),
                                                 Min(Offending(ItemsOf(core_rules_path))))
       ELSE IF Offending(ItemsOf(custom_rules_path)) # {}
       THEN /\ pc = "raised"
            /\ rules = <<>>
            /\ result.error = MissingFieldsError(ItemsOf(custom_rules_path),
                                                 Min(Offending(ItemsOf(custom_rules_path))))
       ELSE Len(rules) = Len(AllItems)

\* The load of a core file has failed on its second object, which lacks
\* severity and message, after a first object that is complete.
C21_Witness ==
  /\ pc = "raised"
  /\ core_rules_path # None
  /\ Len(core_rules_path[1]) = 2
  /\ Offending(core_rules_path[1]) = {2}
  /\ result.kind = "ValueError"
  /\ result.error = <<"R", "u", "l", "e", " ", "a", "t", " ", "i", "n", "d", "e", "x", " ", "1", " ", "m", "i", "s", "s", "i", "n", "g", " ", "f", "i", "e", "l", "d", "s", ":", " ", "[", "'", "m", "e", "s", "s", "a", "g", "e", "'", ",", " ", "'", "s", "e", "v", "e", "r", "i", "t", "y", "'", "]">>
  /\ rules = <<>>

(***************************************************************************)
(* violation_manager.py (specification SpecAnnotations)                    *)
(*                                                                         *)
(* The dict of annotations is the list of its (key, value) pairs in the    *)
(* order of insertion, as Python keeps it.  The time of an annotation is   *)
(* the number of the call that made it.                                    *)
(***************************************************************************)

\* d.get(key): the value as Some, or None
DictGet(d, key) ==
  IF \E k \in 1..Len(d) : d[k].key = key
  THEN Some(d[CHOOSE k \in 1..Len(d) : d[k].key = key /\ \A j \in 1..(k - 1) : d[j].key # key].value)
  ELSE None

\* d[key] = value adding a pair whatever the keys of d.
DictSet_append(d, key, value) == Append(d, [key |-> key, value |-> value])

\* d[key] = value: the value of an existing key is replaced where it is, a new
\* key goes to the end.
DictSet(d, key, value) ==
  IF \E k \in 1..Len(d) : d[k].key = key
  THEN [k \in 1..Len(d) |-> IF d[k].key = key THEN [key |-> key, value |-> value] ELSE d[k]]
  ELSE Append(d, [key |-> key, value |-> value])

ViolationAnnotation(violation_id, status, reviewer, comment, timestamp, action_taken) ==
  [violation_id |-> violation_id, status |-> status, reviewer |-> reviewer,
   comment |-> comment, timestamp |-> timestamp, action_taken |-> action_taken]

\* str(row_index) in an f-string
RowIndexText(row_index) == IF row_index = None THEN <<"N", "o", "n", "e">> ELSE NatStr(row_index[1])

get_violation_id(violation) ==
  violation.rule_id \o <<"_">> \o violation.domain \o <<"_">> \o RowIndexText(violation.row_index)

\* The dict add_annotation leaves.
add_annotation(dict, violation, status, reviewer, comment, now, action_taken) ==
  DictSet(dict, get_violation_id(violation),
          ViolationAnnotation(get_violation_id(violation), status, reviewer, comment, now,
                              action_taken))

get_annotation(dict, violation) == DictGet(dict, get_violation_id(violation))

\* The file save_annotations writes, as load_annotations reads it back: every
\* text written by json.dumps and read by json.loads.
save_annotations(dict) ==
  Some([k \in 1..Len(dict) |->
          [key |-> JsonLoads(JsonDumps(dict[k].key)),
           value |-> ViolationAnnotation(JsonLoads(JsonDumps(dict[k].value.violation_id)),
                                         JsonLoads(JsonDumps(dict[k].value.status)),
                                         JsonLoads(JsonDumps(dict[k].value.reviewer)),
                                         JsonLoads(JsonDumps(dict[k].value.comment)),
                                         dict[k].value.timestamp,
                                         dict[k].value.action_taken)]])

\* The dict of a new ViolationManager: empty when there is no file.
load_annotations(file) == IF file = None THEN <<>> ELSE file[1]

\* The five counters get_status_summary starts from.
StatusNames == <<<<"N", "e", "w">>, <<"U", "n", "d", "e", "r", " ", "R", "e", "v", "i", "e", "w">>, <<"A", "c", "c", "e", "p", "t", "e", "d">>, <<"F", "i", "x", "e", "d">>, <<"F", "a", "l", "s", "e", " ", "P", "o", "s", "i", "t", "i", "v", "e">>>>

\* summary after the first n violations of the list
RECURSIVE SummaryUpTo(_, _, _)
SummaryUpTo(dict, list, n) ==
  IF n = 0 THEN [k \in 1..Len(StatusNames) |-> [key |-> StatusNames[k], value |-> 0]]
  ELSE LET summary == SummaryUpTo(dict, list, n - 1)
           annotation == get_annotation(dict, list[n])
           status == IF annotation # None THEN annotation[1].status ELSE <<"N", "e", "w">>
           count == IF DictGet(summary, status) = None THEN 0 ELSE DictGet(summary, status)[1]
       IN  DictSet(summary, status, count + 1)

get_status_summary(dict, list) == SummaryUpTo(dict, list, Len(list))

\* [v for v in violations if its status, "New" without annotation, is status]
get_violations_by_status(dict, list, status) ==
  SelectSeq(list, LAMBDA v : IF get_annotation(dict, v) # None
                             THEN get_annotation(dict, v)[1].status = status
                             ELSE status = <<"N", "e", "w">>)

\* The violations that are annotated: a row of a rule, a violation of a whole
\* domain, and two violations of different rules and domains whose ids read
\* the same.
ReviewRule(id, domain) == Rule(id, domain, <<"A", "G", "E">>, <<"A", "G", "E", " ", ">", " ", "1", "2", "0">>, <<"E", "R", "R", "O", "R">>, <<"T", "o", "o", " ", "o", "l", "d">>, "core")

ReviewedViolations ==
  { Violation(ReviewRule(<<"D", "M", "1">>, <<"D", "M">>), <<"T", "o", "o", " ", "o", "l", "d">>, Some(1), None, None),
    Violation(ReviewRule(<<"A", "E", "1">>, <<"A", "E">>), <<"D", "o", "m", "a", "i", "n", " ", "A", "E", " ", "n", "o", "t", " ", "f", "o", "u", "n", "d">>, None, None, None),
    Violation(ReviewRule(<<"A", "_", "B">>, <<"C">>), <<"T", "o", "o", " ", "o", "l", "d">>, Some(1), None, None),
    Violation(ReviewRule(<<"A">>, <<"B", "_", "C">>), <<"T", "o", "o", " ", "o", "l", "d">>, Some(1), None, None) }

\* The statuses given: two of the five, and one that is not among them.
GivenStatuses == {<<"F", "i", "x", "e", "d">>, <<"N", "e", "w">>, <<"W", "a", "i", "v", "e", "d">>}

GivenComments == {<<"o", "k">>, <<"s", "a", "y", " ", "\"", "w", "h", "y", "\"">>}

\* A new manager of a project that has no annotations file.
InitAnnotations ==
  /\ EngineIdle
  /\ MaskIdle
  /\ custom_rules_path = None
  /\ custom_rules_list = <<>>
  /\ ops = 0
  /\ last_op = NoOp
  /\ annotations = load_annotations(None)
  /\ annotations_file = None
  /\ project_name = <<>>
  /\ project_dir = <<>>

AnnotationsFrame ==
  <<domain_tables, rules, i, violations, origin, pc, result, previous, fileVars,
    maskVars, custom_rules_list, projectVars>>

\* add_annotation, which ends with save_annotations.
AddAnnotation ==
  \E violation \in ReviewedViolations, status \in GivenStatuses, comment \in GivenComments :
    /\ ops < MaxOps
    /\ annotations' = add_annotation(annotations, violation, status, <<"m", "e">>, comment,
                                     ops + 1, None)
    /\ annotations_file' = save_annotations(annotations')
    /\ ops' = ops + 1
    /\ last_op' = [name |-> "add_annotation", id |-> get_violation_id(violation),
                   status |-> status, comment |-> comment]
    /\ UNCHANGED AnnotationsFrame

\* The page runs again: a new ViolationManager reads the file.
NewManager ==
  /\ annotations' = load_annotations(annotations_file)
  /\ last_op' = [name |-> "load_annotations", id |-> <<>>, status |-> <<>>, comment |-> <<>>]
  /\ UNCHANGED <<annotations_file, ops, AnnotationsFrame>>

NextAnnotations == AddAnnotation \/ NewManager

SpecAnnotations == InitAnnotations /\ [][NextAnnotations]_vars

(***************************************************************************)
(* Sequences of add_rule_from_template and add_rule_from_fields calls on a *)
(* session list whose ids are pairwise distinct (specification SpecAdds)   *)
(***************************************************************************)

\* A rule of the domain DM with the given id.
StartRule(id) == RuleDict(id, <<"D", "M">>, <<"A", "G", "E">>, <<"A", "G", "E", " ", ">", " ", "1", "2", "0">>, <<"E", "R", "R", "O", "R">>, <<"T", "o", "o", " ", "o", "l", "d">>)

\* The lists the calls start from: no rule, rules with the id of a template
\* and with ids of the form <id>_<k>, an id with a lower-case letter.
StartLists ==
  { <<>>,
    <<StartRule(<<"D", "M", "0", "0", "1">>)>>,
    <<StartRule(<<"D", "M", "0", "0", "1">>), StartRule(<<"D", "M", "0", "0", "1", "_", "1">>)>>,
    <<StartRule(<<"D", "M", "0", "0", "1", "_", "2">>), StartRule(<<"D", "M", "0", "0", "1">>)>>,
    <<StartRule(<<"d", "m", "0", "0", "1">>), StartRule(<<"D", "M", "0", "0", "2">>)>>,
    <<StartRule(<<"A", "E", "0", "0", "1", "_", "1">>), StartRule(<<"D", "M", "0", "0", "3">>)>> }

InitAdds ==
  /\ EngineIdle
  /\ MaskIdle
  /\ custom_rules_path = None
  /\ custom_rules_list \in StartLists
  /\ ops = 0
  /\ last_op = NoOp
  /\ annotations = <<>>
  /\ annotations_file = None
  /\ project_name = <<>>
  /\ project_dir = <<>>

NextAdds == AddTemplate \/ BuilderSubmit

SpecAdds == InitAdds /\ [][NextAdds]_vars

(***************************************************************************)
(* Properties of the Rule Configuration page (checked under SpecRules and  *)
(* SpecAdds)                                                               *)
(***************************************************************************)

\* The objects of the custom rules file, none when there is no file.
SavedItems == IF custom_rules_path = None THEN <<>> ELSE custom_rules_path[1]

\* The text of a field of a saved object.
SavedField(item, key) == item[key].s

\* A list of saved objects has pairwise distinct ids, at most
\* MAX_RULES_PER_DOMAIN objects of any domain, no required field that is
\* absent, not a text or blank, and its domains and variables are in upper case.
ValidRuleSet(items) ==
  /\ \A k \in 1..Len(items) : \A key \in REQUIRED_FIELDS :
       /\ key \in DOMAIN items[k]
       /\ items[k][key].t = "str"
       /\ Strip(SavedField(items[k], key)) # <<>>
  /\ \A k, m \in 1..Len(items) :
       SavedField(items[k], <<"i", "d">>) = SavedField(items[m], <<"i", "d">>) => k = m
  /\ \A k \in 1..Len(items) :
       Cardinality({m \in 1..Len(items) :
                      SavedField(items[m], <<"d", "o", "m", "a", "i", "n">>) = SavedField(items[k], <<"d", "o", "m", "a", "i", "n">>)})
         <= MAX_RULES_PER_DOMAIN
  /\ \A k \in 1..Len(items) :
       /\ Upper(SavedField(items[k], <<"d", "o", "m", "a", "i", "n">>)) = SavedField(items[k], <<"d", "o", "m", "a", "i", "n">>)
       /\ Upper(SavedField(items[k], <<"v", "a", "r", "i", "a", "b", "l", "e">>)) = SavedField(items[k], <<"v", "a", "r", "i", "a", "b", "l", "e">>)

\* C22: whatever adds, edits, imports and clears came before, a step that
\* writes the custom rules file is taken only when the validation of the
\* session list (validate_rules for the save button, _rules_from_editor for
\* the run button) reports no error, and the rules it writes have pairwise
\* distinct ids, at most 20 rules per domain, no empty required field, and
\* upper-case domain and variable.
C22_SavedRulesValid ==
  [][custom_rules_path' # custom_rules_path =>
       /\ Len(custom_rules_path') = 1
       /\ ValidRuleSet(custom_rules_path'[1])
       /\ \/ last_op'.name = "save" /\ validate_rules(custom_rules_list).errors = <<>>
          \/ /\ last_op'.name = "run"
             /\ _rules_from_editor(get_rules_dataframe(custom_rules_list)).errors = <<>>]_vars

\* Rules were saved after two operations on the session list, among them a
\* rule whose domain was typed in lower case.
C22_Witness ==
  /\ ops = MaxOps
  /\ last_op.name \in {"save", "run"}
  /\ Len(SavedItems) >= 2
  /\ \E k \in 1..Len(custom_rules_list) :
       custom_rules_list[k][<<"d", "o", "m", "a", "i", "n">>] # Upper(custom_rules_list[k][<<"d", "o", "m", "a", "i", "n">>])
  /\ validate_rules(custom_rules_list).errors = <<>>

\* The save button was pressed on a list with a duplicate id, with more than
\* MAX_RULES_PER_DOMAIN rules of a domain, or with a blank field, and nothing
\* was written.
C22_WitnessRefused ==
  /\ last_op.name = "save"
  /\ custom_rules_path = None
  /\ validate_rules(custom_rules_list).errors # <<>>
  /\ Len(custom_rules_list) > MAX_RULES_PER_DOMAIN

(***************************************************************************)
(* Single calls of build_mask on the conditions whose parsing is examined  *)
(* (specification SpecGrammar)                                             *)
(***************************************************************************)

\* A column of texts and numbers that read alike: "1" and 1, "05" and 5.
LiteralFrame ==
  FrameOf(<<"X">>, "object", <<StrV(<<"1">>), IntV(1), StrV(<<"a">>), StrV(<<"0", "5">>), IntV(5), Null>>)

\* Conditions on it whose literals are numbers, quoted digits, bare words, and
\* a number next to a text.
LiteralConds ==
  { <<"X", " ", "i", "n", " ", "{", "1", ",", "'", "a", "'", "}">>, <<"X", " ", "n", "o", "t", " ", "i", "n", " ", "{", "1", ",", "'", "a", "'", "}">>, <<"X", " ", "i", "n", " ", "{", "1", ",", " ", "5", "}">>, <<"x", " ", "I", "n", " ", "{", "'", "a", "'", ",", " ", "'", "1", "'", "}">>,
    <<"X", " ", "=", "=", " ", "5">>, <<"X", " ", "=", "=", " ", "'", "5", "'">>, <<"X", " ", "=", "=", " ", "\"", "0", "5", "\"">>, <<"X", " ", "=", "=", " ", "5", ".", "0">>, <<"X", " ", "=", "=", " ", "+", "5">>, <<"X", " ", "!", "=", " ", "a">>,
    <<"X", " ", ">", "=", " ", "'", "1", "'">>, <<"X", " ", "<", " ", "5">>, <<"X", " ", "=", "=", " ", "5", ".">>, <<"X", " ", "=", "=", " ", "'", "5", "\"">> }

GrammarCalls == (GrammarFrames \X GrammarConds) \cup ({LiteralFrame} \X LiteralConds)

InitGrammar ==
  /\ \E call \in GrammarCalls : df = call[1] /\ condition = call[2]
  /\ outcome = Pending
  /\ EngineIdle
  /\ AuxIdle
  /\ custom_rules_path = None

SpecGrammar == InitGrammar /\ [][NextMask]_vars

(***************************************************************************)
(* Properties of the grammar of conditions (checked under SpecGrammar)     *)
(***************************************************************************)

\* The six patterns, in the order build_mask tries them.
Patterns ==
  <<_MISSING_PATTERN, _NOT_MISSING_PATTERN, _IN_PATTERN, _NOT_IN_PATTERN,
    _BETWEEN_PATTERN, _OP_PATTERN>>

\* The patterns the condition of the call, stripped, matches.
FormsMatched == {p \in 1..Len(Patterns) : Match(Patterns[p], Strip(condition)).ok}

\* C23: no condition matches more than one of the six patterns (is missing,
\* not missing, in, not in, between, comparison), so the order in which
\* build_mask tries them does not matter; in particular a condition that
\* matches the comparison pattern matches none of the keyword forms.
C23_FormsExclusive ==
  outcome # Pending =>
    LET forms == FormsMatched
    IN  /\ Cardinality(forms) <= 1
        /\ 6 \in forms => forms = {6}

\* build_mask was called with a comparison whose value holds a comparison
\* operator, and with a membership test written with the keywords in upper
\* case.
C23_Witness ==
  /\ outcome # Pending
  /\ FormsMatched = {6}
  /\ Strip(condition) = <<"A", "G", "E", " ", ">", "=", " ", ">", " ", "5">>

C23_WitnessKeyword ==
  /\ outcome # Pending
  /\ FormsMatched = {4}
  /\ Strip(condition) = <<"a", "g", "e", " ", "N", "O", "T", "\t", "I", "N", " ", "{", "'", "M", "'", ",", " ", "5", "}">>

\* C24 (as claimed): when the literals of an "in" or "not in" condition are
\* not all numbers, the literals are all taken as text: a row is a member
\* exactly when the text of its value (astype(str)) is the text of one of the
\* literals, so the text "1" is a member of {1,'a'}.
C24_MixedSetIsText ==
  outcome # Pending =>
    LET text == Strip(condition)
        mIn == Match(_IN_PATTERN, text)
        mNotIn == Match(_NOT_IN_PATTERN, text)
        name == Upper(Group(IF mIn.ok THEN mIn ELSE mNotIn, 1, text))
        values == IF mIn.ok THEN _parse_list(Group(mIn, 6, text))
                  ELSE _parse_list(Group(mNotIn, 8, text))
    IN  ((mIn.ok \/ mNotIn.ok) /\ name \in df.columns /\ ~AllNumeric(values)) =>
          /\ outcome.kind = "mask"
          /\ Len(outcome.mask) = Len(df.rows)
          /\ \A k \in 1..Len(df.rows) :
               LET member == \E j \in 1..Len(values) :
                               AsTypeStr(df.rows[k][name], df.dtype[name]).s = Str(values[j])
               IN  outcome.mask[k] = IF mIn.ok THEN member ELSE ~member

\* A token between two quote characters.
QuotedToken(token) == Len(token) >= 2 /\ IsQuote(token[1]) /\ IsQuote(token[Len(token)])

\* A bare token of the form [+-]?digits(.digits)?
BareNumber(token) == ~QuotedToken(token) /\ IsNumericToken(token)

AllOps == {<<"=", "=">>, <<"!", "=">>} \cup OrderingOps

\* v <op> lit for a cell compared as a number: a cell that does not convert
\* to a number is NaN, which differs from every number and is ordered with
\* none.
NumericCompare(op, v, lit) ==
  IF ~ConvertsToNumber(v) THEN op = <<"!", "=">>
  ELSE IF op = <<"=", "=">> THEN NumberOf(v).n * lit.d = lit.n * NumberOf(v).d
  ELSE IF op = <<"!", "=">> THEN NumberOf(v).n * lit.d # lit.n * NumberOf(v).d
  ELSE Ordered(op, NumberOf(v), lit)

\* s <op> t for two texts
TextCompare(op, s, t) ==
  IF op = <<"=", "=">> THEN s = t
  ELSE IF op = <<"!", "=">> THEN s # t
  ELSE IF op = <<">">> THEN StrLess(t, s)
  ELSE IF op = <<">", "=">> THEN StrLess(t, s) \/ s = t
  ELSE IF op = <<"<">> THEN StrLess(s, t)
  ELSE StrLess(s, t) \/ s = t

\* C25: in a comparison the literal token alone decides how the column is
\* compared, whatever the column holds.  A bare token of the form
\* [+-]?digits(.digits)? is a number (a float when it has a ".", else an
\* integer) and every cell is compared as a number; a quoted token is the text
\* between its quotes, also when that text is digits (X == '5'), any other
\* bare token is the text itself, and in both cases every cell is compared by
\* its text.
C25_ModeFromLiteral ==
  outcome # Pending =>
    LET text == Strip(condition)
        m == Match(_OP_PATTERN, text)
        name == Upper(Group(m, 1, text))
        op == Group(m, 3, text)
        token == Strip(Group(m, 5, text))
        value == _parse_value(Group(m, 5, text))
    IN  (m.ok /\ name \in df.columns) =>
          /\ op \in AllOps
          /\ outcome.kind = "mask"
          /\ Len(outcome.mask) = Len(df.rows)
          /\ IF BareNumber(token)
             THEN /\ value.t = IF \E k \in 1..Len(token) : token[k] = "." THEN "float" ELSE "int"
                  /\ \A k \in 1..Len(df.rows) :
                       outcome.mask[k] = NumericCompare(op, df.rows[k][name], value)
             ELSE /\ value = StrV(IF QuotedToken(token) THEN Slice(token, 2, Len(token) - 1)
                                  ELSE token)
                  /\ \A k \in 1..Len(df.rows) :
                       outcome.mask[k] =
                         TextCompare(op, AsTypeStr(df.rows[k][name], df.dtype[name]).s, value.s)

\* "X == '5'" over ["1", 1, "a", "05", 5, null] has selected the number 5,
\* whose text is "5", and not the text "05".
C25_Witness ==
  /\ df = LiteralFrame
  /\ condition = <<"X", " ", "=", "=", " ", "'", "5", "'">>
  /\ outcome.kind = "mask"
  /\ outcome.mask = <<FALSE, FALSE, FALSE, FALSE, TRUE, FALSE>>

\* "X == 5" over the same column has selected the text "05" as well.
C25_WitnessNumeric ==
  /\ df = LiteralFrame
  /\ condition = <<"X", " ", "=", "=", " ", "5">>
  /\ outcome.kind = "mask"
  /\ outcome.mask = <<FALSE, FALSE, FALSE, TRUE, TRUE, FALSE>>

\* The text of a match with the letters of its column token and of its
\* keywords (the items kw of the pattern) put in upper or in lower case, and
\* everything else as it is.
Recased(text, m, kw, upper) ==
  LET part(j) == IF j = 1 \/ j \in kw
                 THEN (IF upper THEN Upper(Group(m, j, text))
                       ELSE [k \in 1..Len(Group(m, j, text)) |-> LowerChar(Group(m, j, text)[k])])
                 ELSE Group(m, j, text)
  IN  Join([j \in 1..Len(m.ends) |-> part(j)], <<>>)

\* The condition written with its column token and keywords in upper or in
\* lower case; a condition of no form has no column token and no keyword.
CaseVariant(cond, upper) ==
  LET text == Strip(cond)
      mMissing    == Match(_MISSING_PATTERN, text)
      mNotMissing == Match(_NOT_MISSING_PATTERN, text)
      mIn         == Match(_IN_PATTERN, text)
      mNotIn      == Match(_NOT_IN_PATTERN, text)
      mBetween    == Match(_BETWEEN_PATTERN, text)
      mOp         == Match(_OP_PATTERN, text)
  IN  IF mMissing.ok THEN Recased(text, mMissing, {3, 5}, upper)
      ELSE IF mNotMissing.ok THEN Recased(text, mNotMissing, {3, 5}, upper)
      ELSE IF mIn.ok THEN Recased(text, mIn, {3}, upper)
      ELSE IF mNotIn.ok THEN Recased(text, mNotIn, {3, 5}, upper)
      ELSE IF mBetween.ok THEN Recased(text, mBetween, {3, 7}, upper)
      ELSE IF mOp.ok THEN Recased(text, mOp, {}, upper)
      ELSE cond

\* C26: the keywords (is missing, not missing, in, not in, between ... and)
\* are matched whatever their letter case and the column token is put in upper
\* case before the lookup: the condition of the call, the same condition with
\* column token and keywords in upper case, and the same with both in lower
\* case give the same mask, or the same error, on the same table.
C26_CaseInsensitive ==
  outcome # Pending =>
    /\ build_mask(df, CaseVariant(condition, TRUE)) = outcome
    /\ build_mask(df, CaseVariant(condition, FALSE)) = outcome

\* "age Is MISSING" has given the mask of "AGE IS MISSING" and of
\* "age is missing", which selects a row.
C26_Witness ==
  /\ Strip(condition) = <<"a", "g", "e", " ", "I", "s", " ", "M", "I", "S", "S", "I", "N", "G">>
  /\ CaseVariant(condition, TRUE) = <<"A", "G", "E", " ", "I", "S", " ", "M", "I", "S", "S", "I", "N", "G">>
  /\ CaseVariant(condition, FALSE) = <<"a", "g", "e", " ", "i", "s", " ", "m", "i", "s", "s", "i", "n", "g">>
  /\ outcome.kind = "mask"
  /\ \E k \in 1..Len(outcome.mask) : outcome.mask[k]

\* "age between 5 AND abc" was evaluated, and its lower-case variant is
\* "age between 5 and abc".
C26_WitnessBetween ==
  /\ Strip(condition) = <<"a", "g", "e", " ", "b", "e", "t", "w", "e", "e", "n", " ", "5", " ", "A", "N", "D", " ", "a", "b", "c">>
  /\ CaseVariant(condition, FALSE) = <<"a", "g", "e", " ", "b", "e", "t", "w", "e", "e", "n", " ", "5", " ", "a", "n", "d", " ", "a", "b", "c">>
  /\ outcome # Pending

\* The ids of a list are pairwise distinct.
DistinctIds(list) ==
  \A k, m \in 1..Len(list) : list[k][<<"i", "d">>] = list[m][<<"i", "d">>] => k = m

\* new_id is the first id of the form <id>_<k>, k = 1, 2, ..., that no rule
\* of the list has.
FirstFree(new_id, id, list) ==
  \E k \in 1..(Len(list) + 1) :
    /\ new_id = id \o <<"_">> \o NatStr(k)
    /\ \A j \in 1..(k - 1) : Contains(IdsOf(list), id \o <<"_">> \o NatStr(j))

\* The id the last add asked for: the id of the template, the id typed in
\* the builder without its surrounding blanks, nothing with "auto id".
Requested(o) == IF o.name = "add_rule_from_fields" THEN Strip(o.id) ELSE o.id

C27_WitnessFields ==
  /\ last_op = [name |-> "add_rule_from_fields", id |-> <<" ", "D", "M", "0", "0", "1", " ">>]
  /\ IdsOf(custom_rules_list) = <<<<"D", "M", "0", "0", "1", "_", "2">>, <<"D", "M", "0", "0", "1">>, <<"D", "M", "0", "0", "1", "_", "1">>, <<"D", "M", "0", "0", "1", "_", "3">>>>

\* The builder made an id up for the domain "dm" on a list that had dm001 and
\* DM002.
C27_WitnessAuto ==
  /\ last_op = [name |-> "add_rule_from_fields", id |-> <<>>]
  /\ IdsOf(custom_rules_list) = <<<<"d", "m", "0", "0", "1">>, <<"D", "M", "0", "0", "2">>, <<"D", "M", "0", "0", "3">>>>

\* The rules the last press of the save or the run button got from the
\* validation of the session list.
ValidatedRules(o) ==
  IF o.name = "save" THEN validate_rules(custom_rules_list)
  ELSE _rules_from_editor(get_rules_dataframe(custom_rules_list))

\* The fields of a rule are trimmed, and its domain, variable and severity
\* are in upper case.
TrimmedRule(rule) ==
  /\ \A f \in {rule.id, rule.domain, rule.variable, rule.condition, rule.severity, rule.message} :
       Strip(f) = f
  /\ \A f \in {rule.domain, rule.variable, rule.severity} : Upper(f) = f

\* C28: right after the save or the run button found no error, the session
\* list being what it was when the button was pressed, the rules the page
\* validation handed to save_rules are trimmed with their domain, variable and
\* severity in upper case, and load_rules of the file save_rules wrote gives,
\* for either source argument, as many rules in the same order, each equal to
\* the saved one in id, domain, variable, condition, severity and message and
\* with the source argument as source; a file that does not exist loads as
\* the empty list.
C28_RoundTrip ==
  /\ \A source \in {"core", "custom"} : load_rules(None, source) = Loaded(<<>>)
  /\ (last_op.name \in {"save", "run"} /\ ValidatedRules(last_op).errors = <<>>) =>
       LET saved == ValidatedRules(last_op).rules
       IN  /\ custom_rules_path = save_rules(saved)
           /\ \A k \in 1..Len(saved) : TrimmedRule(saved[k])
           /\ \A source \in {"core", "custom"} :
                load_rules(custom_rules_path, source)
                  = Loaded([k \in 1..Len(saved) |-> [saved[k] EXCEPT !.source = source]])

\* Two rules were saved, one with quotes in its message, and the file loads
\* as two rules.
C28_Witness ==
  /\ last_op.name \in {"save", "run"}
  /\ custom_rules_path # None
  /\ Len(SavedItems) = 2
  /\ \E k \in 1..2 : SavedItems[k][<<"m", "e", "s", "s", "a", "g", "e">>] = StrV(<<"N", "o", " ", "\"", "g", "r", "a", "d", "e", "\"">>)
  /\ Len(load_rules(custom_rules_path, "core").rules) = 2

\* Nothing has been saved: there is no file, and it loads as no rules.
C28_WitnessNoFile ==
  /\ ops > 0
  /\ custom_rules_path = None
  /\ load_rules(custom_rules_path, "custom") = Loaded(<<>>)

(***************************************************************************)
(* Properties of the violation manager (checked under SpecAnnotations)     *)
(***************************************************************************)

\* The sum of the counts of a summary.
RECURSIVE SumCounts(_)
SumCounts(summary) ==
  IF summary = <<>> THEN 0 ELSE summary[1].value + SumCounts(Tail(summary))

\* The lists of violations that are summarised.
SummarisedLists == SeqUpTo(ReviewedViolations, MaxRows)

\* The violations of a list that have no annotation, or one of status "New".
NewOnes(list) ==
  SelectSeq(list, LAMBDA v : \/ get_annotation(annotations, v) = None
                             \/ get_annotation(annotations, v)[1].status = <<"N", "e", "w">>)

\* No two annotations have the same violation id, and each is stored under
\* its own id.
OnePerId ==
  /\ \A j, k \in 1..Len(annotations) : annotations[j].key = annotations[k].key => j = k
  /\ \A k \in 1..Len(annotations) : annotations[k].value.violation_id = annotations[k].key

\* For every violation whose id is that of the last add_annotation,
\* get_annotation returns the annotation that call made.
LastIsReturned ==
  last_op.name = "add_annotation" =>
    \A v \in ReviewedViolations :
      get_violation_id(v) = last_op.id =>
        get_annotation(annotations, v)
          = Some(ViolationAnnotation(last_op.id, last_op.status, <<"m", "e">>, last_op.comment, ops, None))

\* The counts of get_status_summary sum to the length of the list, and the
\* count of "New" is the number of violations without annotation or with an
\* annotation of that status (a manager that has just read the file has the
\* annotations the one before it had).
SummaryCountsAll ==
  last_op.name # "load_annotations" =>
  \A list \in SummarisedLists :
    LET summary == get_status_summary(annotations, list)
    IN  /\ SumCounts(summary) = Len(list)
        /\ DictGet(summary, <<"N", "e", "w">>) = Some(Len(NewOnes(list)))
        /\ get_violations_by_status(annotations, list, <<"N", "e", "w">>) = NewOnes(list)

C29_WitnessStatus ==
  \E v, w \in ReviewedViolations :
    /\ get_annotation(annotations, v) # None
    /\ get_annotation(annotations, v)[1].status = <<"W", "a", "i", "v", "e", "d">>
    /\ get_annotation(annotations, w) = None
    /\ DictGet(get_status_summary(annotations, <<v, w>>), <<"W", "a", "i", "v", "e", "d">>) = Some(1)
    /\ DictGet(get_status_summary(annotations, <<v, w>>), <<"N", "e", "w">>) = Some(1)

\* Two violations of different rules and domains have the same id, and the
\* annotation of one is returned for the other.
C29_WitnessSharedId ==
  \E v, w \in ReviewedViolations :
    /\ v.rule_id # w.rule_id
    /\ get_violation_id(v) = get_violation_id(w)
    /\ get_annotation(annotations, v) # None
    /\ get_annotation(annotations, w) = get_annotation(annotations, v)

(***************************************************************************)
(* storage/project.py: the folder of a project (specification SpecProject) *)
(*                                                                         *)
(* A path is the list of its components.                                   *)
(***************************************************************************)

\* The length of the names the user types.
MaxName == 3

\* The characters of the names: letters, a digit, the two marks that are
\* kept, a blank, a dot and the two separators.
NameChars == {"a", "Z", "7", "-", "_", " ", ".", "/", "\\"}

PROJECTS_ROOT == <<<<"p", "r", "o", "j", "e", "c", "t", "s">>>>

\* ch.isalnum()
IsAlnum(c) == IsDigit(c) \/ IsUpperLetter(c) \/ IsLowerLetter(c)

\* base / text of pathlib: the components of text, the separators between
\* them and the "." components left out, are added to those of base; a text
\* that starts with a separator is a path of its own.
PathJoin(base, text) ==
  LET parts == SelectSeq(Split(text, "/"), LAMBDA part : part # <<>> /\ part # <<".">>)
  IN  IF text # <<>> /\ text[1] = "/" THEN <<<<"/">>>> \o parts ELSE base \o parts

\* sanitize_project_name keeping every character.
sanitize_project_name_unfiltered(name) ==
  IF Strip(name) = <<>> THEN <<"d", "e", "f", "a", "u", "l", "t">> ELSE Strip(name)

sanitize_project_name(name) ==
  LET cleaned == SelectSeq(Strip(name), LAMBDA ch : IsAlnum(ch) \/ ch = "-" \/ ch = "_")
  IN  IF cleaned = <<>> THEN <<"d", "e", "f", "a", "u", "l", "t">> ELSE cleaned

project_path(name) == PathJoin(PROJECTS_ROOT, sanitize_project_name(name))

\* custom_rules_path(project_name) of project.py
custom_rules_file(name) == PathJoin(project_path(name), <<"c", "u", "s", "t", "o", "m", "_", "r", "u", "l", "e", "s", ".", "j", "s", "o", "n">>)

\* The user has typed a name; no path has been computed.
InitProject ==
  /\ EngineIdle
  /\ MaskIdle
  /\ custom_rules_path = None
  /\ custom_rules_list = <<>>
  /\ ops = 0
  /\ last_op = NoOp
  /\ annotations = <<>>
  /\ annotations_file = None
  /\ project_name \in SeqUpTo(NameChars, MaxName)
  /\ project_dir = <<>>

\* The folder of the project and its file of custom rules are computed.
OpenProject ==
  /\ project_dir = <<>>
  /\ project_dir' = <<project_path(project_name), custom_rules_file(project_name)>>
  /\ UNCHANGED <<project_name, engineVars, maskVars, sessionVars, annotationVars>>

NextProject == OpenProject

SpecProject == InitProject /\ [][NextProject]_vars

(***************************************************************************)
(* Properties of the project folder (checked under SpecProject)            *)
(***************************************************************************)

\* The component holds no separator and is not "..".
PlainComponent(part) ==
  /\ part # <<".", ".">>
  /\ part # <<>>
  /\ \A k \in 1..Len(part) : part[k] # "/" /\ part[k] # "\\"

\* C30: sanitize_project_name returns a text that is not empty and holds
\* nothing but letters, digits, "-" and "_" ("default" when the name has none
\* of them), and is idempotent; project_path of any name is the projects root
\* followed by that one component, custom_rules_path is that path followed by
\* custom_rules.json, and no component holds a separator or is "..".
C30_SafeProjectPath ==
  LET cleaned == sanitize_project_name(project_name)
  IN  /\ cleaned # <<>>
      /\ \A k \in 1..Len(cleaned) : IsAlnum(cleaned[k]) \/ cleaned[k] \in {"-", "_"}
      /\ (\A k \in 1..Len(project_name) :
            ~(IsAlnum(project_name[k]) \/ project_name[k] \in {"-", "_"}))
           => cleaned = <<"d", "e", "f", "a", "u", "l", "t">>
      /\ sanitize_project_name(cleaned) = cleaned
      /\ project_dir # <<>> =>
           /\ project_dir[1] = PROJECTS_ROOT \o <<cleaned>>
           /\ project_dir[2] = PROJECTS_ROOT \o <<cleaned, <<"c", "u", "s", "t", "o", "m", "_", "r", "u", "l", "e", "s", ".", "j", "s", "o", "n">>>>
           /\ \A p \in 1..2 : \A k \in 1..Len(project_dir[p]) : PlainComponent(project_dir[p][k])

\* The name "../" has given the folder projects/default.
C30_Witness ==
  /\ project_name = <<".", ".", "/">>
  /\ project_dir # <<>>
  /\ project_dir[1] = <<<<"p", "r", "o", "j", "e", "c", "t", "s">>, <<"d", "e", "f", "a", "u", "l", "t">>>>

\* The name "/a." has given the folder projects/a.
C30_WitnessKept ==
  /\ project_name = <<"/", "a", ".">>
  /\ project_dir # <<>>
  /\ project_dir[2] = <<<<"p", "r", "o", "j", "e", "c", "t", "s">>, <<"a">>, <<"c", "u", "s", "t", "o", "m", "_", "r", "u", "l", "e", "s", ".", "j", "s", "o", "n">>>>

====
